---- MODULE Spec2Model ----
(***************************************************************************)
(* whm2bunny: the provisioning state store (internal/state), the domain    *)
(* and subdomain pipelines (internal/provisioner), the recovery driver     *)
(* (cmd/whm2bunny/commands serve) and the DNS+CDN provider they drive.     *)
(*                                                                         *)
(* Go pointers are modelled explicitly: a *ProvisionState is an address    *)
(* into `heap`.  Manager.Create hands out the stored pointer, Manager.Get  *)
(* and GetByDomain hand out a copy, and Manager.Update stores the caller's *)
(* pointer, so after an Update the caller and the store share one object.  *)
(* createdAt/updatedAt are not modelled.                                   *)
(***************************************************************************)
EXTENDS Integers, Sequences, FiniteSets, TLC

VARIABLES
    heap,         \* Addr -> ProvisionState object (NullRec: not allocated)
    states,       \* Manager.states: id -> address of the stored object (Nil: absent)
    domainIndex,  \* Manager.domainIndex: domain -> id (NoId: absent)
    disk,         \* the state file: id -> serialized record (NullRec: absent)
    nextId,       \* the next uuid Create will draw
    provider,     \* the DNS+CDN provider: zones, records, pull zones
    tasks,        \* one entry per goroutine running a provisioner operation
    nextTask,     \* the next free task slot
    recov,        \* the recovery driver (recoverPendingProvisions / Provisioner.Recover)
    failsLeft,    \* provider calls that may still fail terminally
    crashes,      \* process kills so far
    storeOps,     \* store calls made by a direct caller of the Manager API
    running,      \* the task that took the last step (0: none is running)
    switches,     \* preemptions so far: steps taken while another task was mid-run
    req,          \* the webhook request ServeHTTP is handling
    rt,           \* the retry engine: the client's backoff and the operation in hand
    fs,           \* the state file's directory while a store call is saving
    notifier,     \* the chat notifier: whether it is enabled, how many messages it
                  \* was given to send, the last of them and whether it went through
    sched,        \* the summary scheduler: its configuration, its running flag and
                  \* the cron it drives (registered jobs, whether it ticks)
    life          \* the process: serving, or how far waitForShutdown has come

vars == <<heap, states, domainIndex, disk, nextId, provider, tasks, nextTask,
          recov, failsLeft, crashes, storeOps, running, switches, req, rt, fs,
          notifier, sched, life>>

\* the scheduler and the process's life
procVars == <<sched, life>>

\* the variables of the retry engine, of a save in progress, of the notifier
\* and of the process
sideVars == <<rt, fs, notifier, sched, life>>

storeVars == <<heap, states, domainIndex, disk, nextId>>

-----------------------------------------------------------------------------
(* Bounds of the model *)

MaxTasks == 2
MaxFail == 1
MaxCrash == 1
MaxStoreOps == 4
MaxSwitch == 2
MaxRequests == 3
MaxRetryOps == 2
MaxSchedOps == 4

(* Program constants *)

StepNone == 0
StepDNSZone == 1
StepDNSRecords == 2
StepPullZone == 3
StepCNAMESync == 4

RecoverRetryLimit == 5

DNSRecordTypeA == 0
DNSRecordTypeCNAME == 2
DNSRecordTypeTXT == 3
DNSRecordTypeMX == 4

StatusPending == "pending"
StatusProvisioning == "provisioning"
StatusSuccess == "success"
StatusFailed == "failed"

-----------------------------------------------------------------------------
(* Universe *)

ParentDomain == "a.com"
SubLabel == "blog"
SubDomain == "blog.a.com"
\* a registered domain that differs from SubDomain in one character only
DashDomain == "blog-a.com"
Domains == {ParentDomain, SubDomain, DashDomain}

\* a domain as the sequence of its labels and separators
DomainChars ==
    [d \in Domains |-> IF d = ParentDomain THEN <<"a", ".", "com">>
                       ELSE IF d = SubDomain THEN <<"blog", ".", "a", ".", "com">>
                       ELSE <<"blog", "-", "a", ".", "com">>]

MaxIds == MaxTasks + 1
Ids == 1..MaxIds
NoId == 0

\* addresses: the object Create or load builds for id i lives at i; each task
\* has one address for the copy its shell holds, one for its pipeline's copy
\* and one for the copy the retry handler that started it took
MaxAddr == MaxIds + 3 * MaxTasks
Addr == 1..MaxAddr
Nil == 0

TaskIds == 1..MaxTasks

NoHost == [pz |-> 0, custom |-> ""]

NullRec ==
    [id |-> NoId, domain |-> "", status |-> "", currentStep |-> 0, zoneId |-> 0,
     pullZoneId |-> 0, cdnHostname |-> NoHost, error |-> "", retries |-> 0]

Min(S) == CHOOSE x \in S : \A y \in S : x <= y

-----------------------------------------------------------------------------
(* The state store: internal/state Manager.  Every operator takes and      *)
(* returns a world w = [heap, states, domainIndex, disk, nextId].          *)

World == [heap |-> heap, states |-> states, domainIndex |-> domainIndex,
          disk |-> disk, nextId |-> nextId]

Exists(w, id) == id \in Ids /\ w.states[id] # Nil

Stored(w, id) == w.heap[w.states[id]]

StoredIds(w) == {i \in Ids : w.states[i] # Nil}

\* save: the whole record set is serialized and renamed over the state file
save(w) ==
    [w EXCEPT !.disk = [i \in Ids |-> IF w.states[i] = Nil THEN NullRec
                                       ELSE w.heap[w.states[i]]]]

\* the record Create builds
NewState(id, domain) ==
    [id |-> id, domain |-> domain, status |-> StatusPending, currentStep |-> StepNone,
     zoneId |-> 0, pullZoneId |-> 0, cdnHostname |-> NoHost, error |-> "",
     retries |-> 0]

\* Create: a new record under a fresh id; the index entry of the domain is overwritten
Create(w, domain) ==
    LET id == w.nextId
        a == id
    IN save([w EXCEPT !.heap[a] = NewState(id, domain),
                      !.states[id] = a,
                      !.domainIndex[domain] = id,
                      !.nextId = id + 1])

\* the address Create returns: the stored object itself
CreatedAddr(w) == w.nextId

\* GetByDomain: the id the index holds for the domain, NoId when absent
LookupDomain(w, domain) ==
    LET id == w.domainIndex[domain]
    IN IF id # NoId /\ Exists(w, id) THEN id ELSE NoId

\* Get / GetByDomain return a copy: a new object with the stored object's value
CopyOut(w, id, a) ==
    [w EXCEPT !.heap[a] = Stored(w, id)]

\* Update: the caller's object replaces the stored one
Update(w, a) ==
    LET r == w.heap[a]
    IN IF ~Exists(w, r.id) THEN w
       ELSE save([w EXCEPT !.states[r.id] = a,
                           !.domainIndex[r.domain] = r.id])

UpdateOk(w, a) == Exists(w, w.heap[a].id)

\* Delete
Delete(w, id) ==
    IF ~Exists(w, id) THEN w
    ELSE save([w EXCEPT !.states[id] = Nil,
                        !.domainIndex[Stored(w, id).domain] = NoId])

\* the in-place mutators: each changes the stored object and saves
Mutate(w, id, r) ==
    IF ~Exists(w, id) THEN w
    ELSE save([w EXCEPT !.heap[w.states[id]] = r])

IncrementStep(w, id) ==
    Mutate(w, id, [Stored(w, id) EXCEPT !.currentStep = @ + 1])

SetError_KeepsRetries(w, id, msg) ==
    Mutate(w, id, [Stored(w, id) EXCEPT !.status = StatusFailed, !.error = msg])

SetError(w, id, msg) ==
    Mutate(w, id, [Stored(w, id) EXCEPT !.status = StatusFailed, !.error = msg,
                                        !.retries = @ + 1])

MarkSuccess(w, id) ==
    Mutate(w, id, [Stored(w, id) EXCEPT !.status = StatusSuccess,
                                        !.currentStep = StepCNAMESync,
                                        !.error = ""])

MarkProvisioning(w, id) ==
    Mutate(w, id, [Stored(w, id) EXCEPT !.status = StatusProvisioning])

Clear(w) ==
    save([w EXCEPT !.states = [i \in Ids |-> Nil],
                   !.domainIndex = [d \in Domains |-> NoId]])

\* Manager.Recover: pending records and failed records under the retry limit
ManagerRecover(w) ==
    {i \in StoredIds(w) :
        \/ Stored(w, i).status = StatusPending
        \/ Stored(w, i).status = StatusFailed /\ Stored(w, i).retries < RecoverRetryLimit}

\* load: the objects and the index are rebuilt from the file; when the file
\* holds several records of one domain the last one read wins, and the file
\* order is the map order of the save that wrote it
LoadIndexes(d) ==
    {ix \in [Domains -> Ids \cup {NoId}] :
        \A dom \in Domains :
            LET owners == {i \in Ids : d[i] # NullRec /\ d[i].domain = dom}
            IN IF owners = {} THEN ix[dom] = NoId ELSE ix[dom] \in owners}

load(w, ix) ==
    [w EXCEPT !.heap = [a \in Addr |-> IF a \in Ids THEN w.disk[a] ELSE NullRec],
              !.states = [i \in Ids |-> IF w.disk[i] = NullRec THEN Nil ELSE i],
              !.domainIndex = ix]

-----------------------------------------------------------------------------
(* The provider (internal/bunny Client against the DNS+CDN REST API).      *)
(* A call either succeeds or, while failsLeft > 0, may fail terminally     *)
(* (the retry engine gave up, or a non-retryable status).  The provider's  *)
(* answer to a create under a name that exists is not fixed by the client: *)
(* it may accept it or refuse it, and both outcomes are possible here.     *)

Outcomes == IF failsLeft > 0 THEN {TRUE, FALSE} ELSE {TRUE}

Charge(ok) == failsLeft' = IF ok THEN failsLeft ELSE failsLeft - 1

SeedValue(text) == [pz |-> 0, custom |-> text]

\* generatePullZoneName: "morden-" + lowercase(domain) with every "." replaced by "-"
ReplaceDots(cs) == [i \in 1..Len(cs) |-> IF cs[i] = "." THEN "-" ELSE cs[i]]

generatePullZoneName(domain) == <<"morden-">> \o ReplaceDots(DomainChars[domain])

\* POST /dns
CreateDNSZone(p, domain) ==
    [p EXCEPT !.zones = @ \cup {[id |-> p.nextZone, domain |-> domain]},
              !.nextZone = @ + 1]

\* GetDNSZone lists the zones and returns the first whose Domain matches
ZonesOf(p, domain) == {z.id : z \in {y \in p.zones : y.domain = domain}}

ZoneExists(p, zoneId) == \E z \in p.zones : z.id = zoneId

\* the id the provider gives a new record.  The program only ever compares
\* record ids for equality, so an id is written as the record's type and name
\* and its number among the records of that type and name in the zone
NoRecord == <<>>

NextRecordId(p, zoneId, type, name) ==
    <<type, name,
      1 + Cardinality({r \in p.records : r.zone = zoneId /\ r.type = type /\ r.name = name})>>

\* POST /dns/{id}/records
AddDNSRecord(p, zoneId, type, name, value) ==
    [p EXCEPT !.records = @ \cup {[id |-> NextRecordId(p, zoneId, type, name),
                                   zone |-> zoneId, type |-> type,
                                   name |-> name, value |-> value]}]

AddDNSRecordOk(p, zoneId) == zoneId > 0 /\ ZoneExists(p, zoneId)

\* GET /dns/{id}/records
GetDNSRecords(p, zoneId) == {r \in p.records : r.zone = zoneId}

GetDNSRecordsOk(p, zoneId) == zoneId > 0 /\ ZoneExists(p, zoneId)

\* POST /dns/{id}/records/{recordId}
UpdateDNSRecord(p, zoneId, recordId, type, name, value) ==
    [p EXCEPT !.records =
        {IF r.zone = zoneId /\ r.id = recordId
         THEN [r EXCEPT !.type = type, !.name = name, !.value = value]
         ELSE r : r \in @}]

UpdateDNSRecordOk(p, zoneId, recordId) ==
    zoneId > 0 /\ recordId # NoRecord /\ \E r \in p.records : r.zone = zoneId /\ r.id = recordId

\* POST /pullzone: the provider assigns the id and the system hostname
CreatePullZone(p, domain) ==
    [p EXCEPT !.pullZones = @ \cup {[id |-> p.nextPull,
                                     name |-> generatePullZoneName(domain),
                                     hostnames |-> <<[pz |-> p.nextPull, custom |-> ""]>>]},
              !.nextPull = @ + 1]

PullZonesNamed(p, name) == {z \in p.pullZones : z.name = name}

\* GET /pullzone/{id}
PullZoneById(p, pzId) == {z \in p.pullZones : z.id = pzId}

\* POST /pullzone/{id}/addHostname
AddPullZoneHostname(p, pzId, domain) ==
    [p EXCEPT !.pullZones =
        {IF z.id = pzId THEN [z EXCEPT !.hostnames = Append(@, [pz |-> 0, custom |-> domain])]
         ELSE z : z \in @}]

\* DELETE /dns/{id}: the zone goes, and its records with it
DeleteDNSZone(p, zoneId) ==
    [p EXCEPT !.zones = {z \in @ : z.id # zoneId},
              !.records = {r \in @ : r.zone # zoneId}]

DeleteDNSZoneOk(p, zoneId) == zoneId > 0 /\ ZoneExists(p, zoneId)

\* DELETE /pullzone/{id}
DeletePullZone(p, pzId) ==
    [p EXCEPT !.pullZones = {z \in @ : z.id # pzId}]

DeletePullZoneOk(p, pzId) == pzId > 0 /\ PullZoneById(p, pzId) # {}

\* extractCDNHostname: the first hostname under the provider's CDN suffix, else
\* the first hostname, else "<id>.bunnycdn.com"
IsCDNHost(h) == h.pz # 0

extractCDNHostname(pullZone) ==
    LET hs == pullZone.hostnames
        cdn == {i \in 1..Len(hs) : IsCDNHost(hs[i])}
    IN IF cdn # {} THEN hs[Min(cdn)]
       ELSE IF Len(hs) > 0 /\ hs[1] # NoHost THEN hs[1]
       ELSE IF pullZone.id > 0 THEN [pz |-> pullZone.id, custom |-> "fabricated"]
       ELSE NoHost

-----------------------------------------------------------------------------
(* Tasks: one goroutine per provisioner operation.                         *)

\* killedAt: the currentStep the state file showed for the task's record when
\* the process was killed under it; stateId, zoneId, pullZoneId: the ids a
\* teardown works with
NotKilled == StepNone - 1

IdleTask ==
    [op |-> "", domain |-> "", from |-> "", pc |-> "idle", outer |-> Nil, inner |-> Nil,
     todo |-> <<>>, hit |-> NoRecord, created |-> {}, host |-> NoHost, err |-> "",
     result |-> "", killedAt |-> NotKilled, stateId |-> NoId, zoneId |-> 0,
     pullZoneId |-> 0]

Live(tk, t) == tk[t].pc \notin {"idle", "done", "dead"}

\* the objects still referenced: by the store, or by a running task
Roots(st, tk) ==
    {st[i] : i \in Ids} \cup {tk[t].outer : t \in {u \in TaskIds : Live(tk, u)}}
                        \cup {tk[t].inner : t \in {u \in TaskIds : Live(tk, u)}}

\* unreferenced objects are collected
gc(h, st, tk) == [a \in Addr |-> IF a \in Roots(st, tk) THEN h[a] ELSE NullRec]

Commit(w, tk) ==
    /\ heap' = gc(w.heap, w.states, tk)
    /\ states' = w.states
    /\ domainIndex' = w.domainIndex
    /\ disk' = w.disk
    /\ nextId' = w.nextId
    /\ tasks' = tk

\* goroutines interleave at every store call and every provider call; a step
\* of task t while another task is in the middle of its run is a preemption
Preempts(t) == running # 0 /\ running # t /\ Live(tasks, running)

\* task t, running operation op, is at pc and may take its next step
At(t, op, pc) ==
    /\ tasks[t].op \in op
    /\ tasks[t].pc = pc
    /\ Preempts(t) => switches < MaxSwitch

\* the effect of a step of task t
Step(t, w, tk) ==
    /\ Commit(w, tk)
    /\ switches' = IF Preempts(t) THEN switches + 1 ELSE switches
    /\ running' = IF Live(tk, t) THEN t ELSE 0

Goto(t, pc) == [tasks EXCEPT ![t].pc = pc]

Fail(t, msg) == [tasks EXCEPT ![t].pc = "setError", ![t].err = msg]

Finish(t, res) ==
    [tasks EXCEPT ![t] = [IdleTask EXCEPT !.op = tasks[t].op, !.domain = tasks[t].domain,
                                          !.from = tasks[t].from, !.pc = "done",
                                          !.err = tasks[t].err, !.result = res]]

OuterAddr(t) == MaxIds + 2 * t - 1

InnerAddr(t) == MaxIds + 2 * t

RetryAddr(t) == MaxIds + 2 * MaxTasks + t

Inner(t) == heap[tasks[t].inner]

OuterId(t) == heap[tasks[t].outer].id

BothOps == {"provision", "subdomain"}

-----------------------------------------------------------------------------
(* Provisioner.Provision and Provisioner.ProvisionSubdomain: the shell     *)
(* around the pipeline (the two have the same shape).                      *)

AlreadyProvisioned_Never(w, domain) == FALSE

\* the short-circuit: GetByDomain finds a record with status success
AlreadyProvisioned(w, domain) ==
    /\ LookupDomain(w, domain) # NoId
    /\ Stored(w, LookupDomain(w, domain)).status = StatusSuccess

\* state.StepName
StepName(step) ==
    CASE step = StepNone -> "none"
      [] step = StepDNSZone -> "dns_zone"
      [] step = StepDNSRecords -> "dns_records"
      [] step = StepPullZone -> "pull_zone"
      [] step = StepCNAMESync -> "cname_sync"
      [] OTHER -> "unknown"

NoMessage == [kind |-> "", domain |-> "", step |-> "", error |-> ""]

\* the notifier of a service configured without a bot token: not enabled
NoNotifier == [enabled |-> FALSE, last |-> NoMessage, delivered |-> FALSE, count |-> 0]

\* the notifier of a service configured with a bot token and a chat
EnabledNotifier == [NoNotifier EXCEPT !.enabled = TRUE]

\* TelegramNotifier.send: nil at once when not enabled, else what the transport
\* answers, which may be an error
SendOutcomes == IF notifier.enabled THEN {TRUE, FALSE} ELSE {TRUE}

send(n, msg, sent) ==
    IF ~n.enabled THEN n
    ELSE [n EXCEPT !.last = msg, !.delivered = sent, !.count = @ + 1]

\* a shell that hands the notifier's error back to its caller
AfterNotify_Propagates(res, sent) == IF sent THEN res ELSE "notification failed"

\* notifErr is logged; the shell returns what it was about to return
AfterNotify(res, sent) == res

\* NotifyFailed(ctx, domain, StepName(provState.CurrentStep), err.Error()) in
\* Provision; NotifyFailed(ctx, fullDomain, "subdomain_provisioning", ...) in
\* ProvisionSubdomain
FailedMessage(t) ==
    [kind |-> "failed", domain |-> tasks[t].domain,
     step |-> IF tasks[t].op = "provision"
              THEN StepName(heap[tasks[t].outer].currentStep)
              ELSE "subdomain_provisioning",
     error |-> tasks[t].err]

\* NotifySuccess / NotifySubdomainProvisioned
SuccessMessage(t) ==
    [NoMessage EXCEPT !.kind = IF tasks[t].op = "provision" THEN "success"
                               ELSE "subdomain_provisioned",
                      !.domain = tasks[t].domain]

\* NotifyDeprovisioned
DeprovisionedMessage(t) ==
    [NoMessage EXCEPT !.kind = "deprovisioned", !.domain = tasks[t].domain]

\* the end of a shell: the notification is sent with outcome sent, and the
\* shell returns; tk is the task afterwards, n the notifier
Notified(t, res, msg, sent) ==
    [tk |-> Finish(t, AfterNotify(res, sent)), n |-> send(notifier, msg, sent)]

\* existingState, err := GetByDomain(domain)
ProvisionStart(t) ==
    /\ At(t, BothOps, "start")
    /\ LET d == tasks[t].domain
           id == LookupDomain(World, d)
       IN IF AlreadyProvisioned(World, d)
          THEN Step(t, World, Finish(t, "already provisioned"))
          ELSE IF id # NoId
          THEN Step(t, CopyOut(World, id, OuterAddr(t)),
                      [tasks EXCEPT ![t].pc = "markProvisioning",
                                    ![t].outer = OuterAddr(t)])
          ELSE Step(t, World, Goto(t, "create"))
    /\ UNCHANGED <<provider, nextTask, recov, failsLeft, crashes, storeOps, sideVars, req>>

\* provState = p.stateManager.Create(domain)
ProvisionCreate(t) ==
    /\ At(t, BothOps, "create")
    /\ nextId <= MaxIds
    /\ Step(t, Create(World, tasks[t].domain),
              [tasks EXCEPT ![t].pc = "markProvisioning",
                            ![t].outer = CreatedAddr(World)])
    /\ UNCHANGED <<provider, nextTask, recov, failsLeft, crashes, storeOps, sideVars, req>>

\* MarkProvisioning(provState.ID); an error is returned without SetError
ProvisionMarkProvisioning(t) ==
    /\ At(t, BothOps, "markProvisioning")
    /\ IF Exists(World, OuterId(t))
       THEN Step(t, MarkProvisioning(World, OuterId(t)), Goto(t, "pipeline"))
       ELSE Step(t, World, Finish(t, "error"))
    /\ UNCHANGED <<provider, nextTask, recov, failsLeft, crashes, storeOps, sideVars, req>>

\* SetError(provState.ID, err.Error()), whose own error is only logged; then
\* NotifyFailed, and the error of the pipeline is returned
ProvisionSetError(t) ==
    /\ At(t, BothOps, "setError")
    /\ \E sent \in SendOutcomes :
         LET r == Notified(t, "error", FailedMessage(t), sent)
         IN /\ Step(t, SetError(World, OuterId(t), tasks[t].err), r.tk)
            /\ notifier' = r.n
    /\ UNCHANGED <<provider, nextTask, recov, failsLeft, crashes, storeOps, rt, fs, procVars, req>>

\* MarkSuccess(provState.ID); its error is only logged
ProvisionMarkSuccess(t) ==
    /\ At(t, BothOps, "markSuccess")
    /\ Step(t, MarkSuccess(World, OuterId(t)), Goto(t, "final"))
    /\ UNCHANGED <<provider, nextTask, recov, failsLeft, crashes, storeOps, sideVars, req>>

\* finalState, err := Get(provState.ID); Provision then reads finalState.ZoneID
ProvisionFinal(t) ==
    /\ At(t, BothOps, "final")
    /\ IF ~Exists(World, OuterId(t)) /\ tasks[t].op = "provision"
       THEN Step(t, World, Finish(t, "panic")) /\ UNCHANGED notifier
       ELSE \E sent \in SendOutcomes :
               LET r == Notified(t, "ok", SuccessMessage(t), sent)
               IN Step(t, World, r.tk) /\ notifier' = r.n
    /\ UNCHANGED <<provider, nextTask, recov, failsLeft, crashes, storeOps, rt, fs, procVars, req>>

-----------------------------------------------------------------------------
(* DomainProvisioner: the four-step pipeline of a domain.                  *)

\* the switch on provState.CurrentStep with its fallthrough chain
DomainEntry(step) ==
    IF step \in {StepNone, StepDNSZone} THEN "createDNSZone"
    ELSE IF step = StepDNSRecords THEN "addDNSRecords"
    ELSE IF step = StepPullZone THEN "createPullZone"
    ELSE IF step = StepCNAMESync THEN "syncCDNCNAME"
    ELSE "markSuccess"

\* provState, err := GetByDomain(domain), then the switch
DomainProvision(t) ==
    /\ At(t, {"provision"}, "pipeline")
    /\ LET id == LookupDomain(World, tasks[t].domain)
       IN IF id = NoId
          THEN Step(t, World, Fail(t, "failed to get state"))
          ELSE Step(t, CopyOut(World, id, InnerAddr(t)),
                      [tasks EXCEPT ![t].inner = InnerAddr(t),
                                    ![t].pc = DomainEntry(Stored(World, id).currentStep)])
    /\ UNCHANGED <<provider, nextTask, recov, failsLeft, crashes, storeOps, sideVars, req>>

\* createDNSZone: GetDNSZone(domain); an existing zone is adopted
createDNSZone_Probe(t) ==
    /\ At(t, {"provision"}, "createDNSZone")
    /\ \E ok \in Outcomes :
         /\ Charge(ok)
         /\ IF ok /\ ZonesOf(provider, tasks[t].domain) # {}
            THEN \E z \in ZonesOf(provider, tasks[t].domain) :
                    Step(t, [World EXCEPT !.heap[tasks[t].inner].zoneId = z],
                           Goto(t, "zoneUpdate"))
            ELSE Step(t, World, Goto(t, "zoneCreate"))
    /\ UNCHANGED <<provider, nextTask, recov, crashes, storeOps, sideVars, req>>

\* createDNSZone: CreateDNSZone(domain, soaEmail); provState.ZoneID = zone.ID
createDNSZone_Create(t) ==
    /\ At(t, {"provision"}, "zoneCreate")
    /\ \E ok \in Outcomes :
         /\ Charge(ok)
         /\ IF ok
            THEN /\ provider' = CreateDNSZone(provider, tasks[t].domain)
                 /\ Step(t, [World EXCEPT !.heap[tasks[t].inner].zoneId = provider.nextZone],
                           Goto(t, "zoneUpdate"))
            ELSE /\ provider' = provider
                 /\ Step(t, World, Fail(t, "failed to create DNS zone"))
    /\ UNCHANGED <<nextTask, recov, crashes, storeOps, sideVars, req>>

\* a step's Update(provState)
StepUpdate(t, pc, next, msg) ==
    /\ At(t, BothOps, pc)
    /\ IF UpdateOk(World, tasks[t].inner)
       THEN Step(t, Update(World, tasks[t].inner), Goto(t, next))
       ELSE Step(t, World, Fail(t, msg))
    /\ UNCHANGED <<provider, nextTask, recov, failsLeft, crashes, storeOps, sideVars, req>>

\* a step's IncrementStep(provState.ID)
StepIncrement(t, pc, next, msg) ==
    /\ At(t, BothOps, pc)
    /\ IF Exists(World, Inner(t).id)
       THEN Step(t, IncrementStep(World, Inner(t).id), Goto(t, next))
       ELSE Step(t, World, Fail(t, msg))
    /\ UNCHANGED <<provider, nextTask, recov, failsLeft, crashes, storeOps, sideVars, req>>

createDNSZone_Update(t) ==
    StepUpdate(t, "zoneUpdate", "zoneIncrement", "failed to create DNS zone")

createDNSZone_Increment(t) ==
    StepIncrement(t, "zoneIncrement", "addDNSRecords", "failed to create DNS zone")

\* the records addDNSRecords seeds, in the order it adds them
Seeds ==
    << [name |-> "@", type |-> DNSRecordTypeA, value |-> "reverseProxyIP", bestEffort |-> FALSE],
       [name |-> "www", type |-> DNSRecordTypeCNAME, value |-> "domain.", bestEffort |-> FALSE],
       [name |-> "@", type |-> DNSRecordTypeMX, value |-> "mail.domain.", bestEffort |-> FALSE],
       [name |-> "@", type |-> DNSRecordTypeTXT, value |-> "v=spf1 a mx -all", bestEffort |-> FALSE],
       [name |-> "_dmarc", type |-> DNSRecordTypeTXT, value |-> "v=DMARC1", bestEffort |-> TRUE] >>

recordExists_Always(existingRecords, name, type) == TRUE

\* recordExists: a record of that name and type is among the fetched ones
recordExists(existingRecords, name, type) ==
    \E r \in existingRecords : r.name = name /\ r.type = type

\* the seeds still to add, given the fetched records
SeedsToAdd(existingRecords) ==
    SelectSeq(Seeds, LAMBDA s : ~recordExists(existingRecords, s.name, s.type))

\* addDNSRecords: GetDNSRecords(zoneID); on error it goes on with no records
addDNSRecords_Probe(t) ==
    /\ At(t, {"provision"}, "addDNSRecords")
    /\ \E ok \in Outcomes :
         /\ Charge(ok)
         /\ LET existing == IF ok /\ GetDNSRecordsOk(provider, Inner(t).zoneId)
                            THEN GetDNSRecords(provider, Inner(t).zoneId) ELSE {}
                todo == SeedsToAdd(existing)
            IN Step(t, World, [tasks EXCEPT ![t].todo = todo,
                                           ![t].pc = IF todo = <<>> THEN "recordsIncrement"
                                                     ELSE "addDNSRecord"])
    /\ UNCHANGED <<provider, nextTask, recov, crashes, storeOps, sideVars, req>>

\* addDNSRecords: one AddDNSRecord; only the DMARC record may fail silently
addDNSRecords_Add(t) ==
    /\ At(t, {"provision"}, "addDNSRecord")
    /\ \E ok \in Outcomes :
         /\ Charge(ok)
         /\ LET s == Head(tasks[t].todo)
                rest == Tail(tasks[t].todo)
                after == [tasks EXCEPT ![t].todo = rest,
                                       ![t].pc = IF rest = <<>> THEN "recordsIncrement"
                                                 ELSE "addDNSRecord"]
            IN IF ok /\ AddDNSRecordOk(provider, Inner(t).zoneId)
               THEN /\ provider' = AddDNSRecord(provider, Inner(t).zoneId, s.type, s.name,
                                                SeedValue(s.value))
                    /\ Step(t, World, after)
               ELSE /\ provider' = provider
                    /\ IF s.bestEffort THEN Step(t, World, after)
                       ELSE Step(t, World, [Fail(t, "failed to add DNS records")
                                               EXCEPT ![t].todo = <<>>])
    /\ UNCHANGED <<nextTask, recov, crashes, storeOps, sideVars, req>>

addDNSRecords_Increment(t) ==
    StepIncrement(t, "recordsIncrement", "createPullZone", "failed to add DNS records")

\* createPullZone: GetPullZoneByName(zoneName); an existing pull zone is adopted
createPullZone_Probe(t) ==
    /\ At(t, {"provision"}, "createPullZone")
    /\ \E ok \in Outcomes :
         /\ Charge(ok)
         /\ LET named == PullZonesNamed(provider, generatePullZoneName(tasks[t].domain))
            IN IF ok /\ named # {}
               THEN \E z \in named :
                       Step(t, [World EXCEPT !.heap[tasks[t].inner].pullZoneId = z.id,
                                            !.heap[tasks[t].inner].cdnHostname =
                                                extractCDNHostname(z)],
                              Goto(t, "pullUpdate"))
               ELSE Step(t, World, Goto(t, "pullCreate"))
    /\ UNCHANGED <<provider, nextTask, recov, crashes, storeOps, sideVars, req>>

\* CreatePullZone(domain, originIP)
PullZone_Create(t, op, pc, next, msg) ==
    /\ At(t, {op}, pc)
    /\ \E ok \in Outcomes :
         /\ Charge(ok)
         /\ IF ok
            THEN /\ provider' = CreatePullZone(provider, tasks[t].domain)
                 /\ Step(t, World,
                           [tasks EXCEPT ![t].pc = next,
                                         ![t].created = PullZoneById(provider', provider.nextPull)])
            ELSE /\ provider' = provider
                 /\ Step(t, World, Fail(t, msg))
    /\ UNCHANGED <<nextTask, recov, crashes, storeOps, sideVars, req>>

createPullZone_Create(t) ==
    PullZone_Create(t, "provision", "pullCreate", "pullHostname", "failed to create pull zone")

\* AddPullZoneHostname(pullZone.ID, domain), whose error is only logged; then
\* PullZoneID and CDNHostname are taken from the pull zone as CreatePullZone
\* returned it
createPullZone_Hostname(t) ==
    /\ At(t, {"provision"}, "pullHostname")
    /\ \E ok \in Outcomes, z \in tasks[t].created :
         /\ Charge(ok)
         /\ provider' = IF ok /\ PullZoneById(provider, z.id) # {}
                        THEN AddPullZoneHostname(provider, z.id, tasks[t].domain)
                        ELSE provider
         /\ Step(t, [World EXCEPT !.heap[tasks[t].inner].pullZoneId = z.id,
                                 !.heap[tasks[t].inner].cdnHostname = extractCDNHostname(z)],
                   [tasks EXCEPT ![t].pc = "pullUpdate", ![t].created = {}])
    /\ UNCHANGED <<nextTask, recov, crashes, storeOps, sideVars, req>>

createPullZone_Update(t) ==
    StepUpdate(t, "pullUpdate", "pullIncrement", "failed to create pull zone")

createPullZone_Increment(t) ==
    StepIncrement(t, "pullIncrement", "syncCDNCNAME", "failed to create pull zone")

\* GetPullZone(pullZoneID) and extractCDNHostname of the answer
CNAME_GetPullZone(t, op, pc, next, msg) ==
    /\ At(t, {op}, pc)
    /\ \E ok \in Outcomes :
         /\ Charge(ok)
         /\ LET found == PullZoneById(provider, Inner(t).pullZoneId)
            IN IF ok /\ Inner(t).pullZoneId > 0 /\ found # {}
               THEN \E z \in found :
                       IF extractCDNHostname(z) = NoHost
                       THEN Step(t, World, Fail(t, msg))
                       ELSE Step(t, World, [tasks EXCEPT ![t].pc = next,
                                                        ![t].host = extractCDNHostname(z)])
               ELSE Step(t, World, Fail(t, msg))
    /\ UNCHANGED <<provider, nextTask, recov, crashes, storeOps, sideVars, req>>

\* GetDNSRecords(zoneID) and the search for the CNAME of that name; on error
\* the search runs over no records
CNAME_Probe(t, op, pc, next, name) ==
    /\ At(t, {op}, pc)
    /\ \E ok \in Outcomes :
         /\ Charge(ok)
         /\ LET existing == IF ok /\ GetDNSRecordsOk(provider, Inner(t).zoneId)
                            THEN GetDNSRecords(provider, Inner(t).zoneId) ELSE {}
                hits == {r.id : r \in {x \in existing :
                                         x.name = name /\ x.type = DNSRecordTypeCNAME}}
            IN IF hits = {}
               THEN Step(t, World, [tasks EXCEPT ![t].pc = next, ![t].hit = NoRecord])
               ELSE \E h \in hits :
                       Step(t, World, [tasks EXCEPT ![t].pc = next, ![t].hit = h])
    /\ UNCHANGED <<provider, nextTask, recov, crashes, storeOps, sideVars, req>>

\* UpdateDNSRecord of the record found, or AddDNSRecord when none was found;
\* then the step's own assignments to provState
CNAME_Write(t, op, pc, next, name, msg, step) ==
    /\ At(t, {op}, pc)
    /\ \E ok \in Outcomes :
         /\ Charge(ok)
         /\ LET zone == Inner(t).zoneId
                hit == tasks[t].hit
                can == IF hit # NoRecord THEN UpdateDNSRecordOk(provider, zone, hit)
                       ELSE AddDNSRecordOk(provider, zone)
            IN IF ok /\ can
               THEN /\ provider' =
                         IF hit # NoRecord
                         THEN UpdateDNSRecord(provider, zone, hit, DNSRecordTypeCNAME, name,
                                              tasks[t].host)
                         ELSE AddDNSRecord(provider, zone, DNSRecordTypeCNAME, name,
                                           tasks[t].host)
                    /\ Step(t, [World EXCEPT
                                 !.heap[tasks[t].inner].cdnHostname =
                                     IF step = StepNone THEN tasks[t].host ELSE @,
                                 !.heap[tasks[t].inner].currentStep =
                                     IF step = StepNone THEN @ ELSE step],
                              [tasks EXCEPT ![t].pc = next, ![t].hit = NoRecord,
                                            ![t].host = NoHost])
               ELSE /\ provider' = provider
                    /\ Step(t, World, [Fail(t, msg) EXCEPT ![t].hit = NoRecord, ![t].host = NoHost])
    /\ UNCHANGED <<nextTask, recov, crashes, storeOps, sideVars, req>>

syncCDNCNAME_GetPullZone(t) ==
    CNAME_GetPullZone(t, "provision", "syncCDNCNAME", "syncProbe", "failed to sync CDN CNAME")

syncCDNCNAME_Probe(t) ==
    CNAME_Probe(t, "provision", "syncProbe", "syncWrite", "cdn")

\* syncCDNCNAME sets provState.CDNHostname = cdnHostname after the write
syncCDNCNAME_Write(t) ==
    CNAME_Write(t, "provision", "syncWrite", "syncUpdate", "cdn", "failed to sync CDN CNAME",
                StepNone)

syncCDNCNAME_Update(t) ==
    StepUpdate(t, "syncUpdate", "syncIncrement", "failed to sync CDN CNAME")

syncCDNCNAME_Increment(t) ==
    StepIncrement(t, "syncIncrement", "markSuccess", "failed to sync CDN CNAME")

-----------------------------------------------------------------------------
(* SubdomainProvisioner: parent zone lookup + pull zone, then the CNAME.   *)

\* the switch on provState.CurrentStep
SubdomainEntry(step) ==
    IF step \in {StepNone, StepDNSZone} THEN "findParent"
    ELSE IF step \in {StepDNSRecords, StepPullZone} THEN "subGetPullZone"
    ELSE "markSuccess"

SubdomainProvision(t) ==
    /\ At(t, {"subdomain"}, "pipeline")
    /\ LET id == LookupDomain(World, tasks[t].domain)
       IN IF id = NoId
          THEN Step(t, World, Fail(t, "failed to get state"))
          ELSE Step(t, CopyOut(World, id, InnerAddr(t)),
                      [tasks EXCEPT ![t].inner = InnerAddr(t),
                                    ![t].pc = SubdomainEntry(Stored(World, id).currentStep)])
    /\ UNCHANGED <<provider, nextTask, recov, failsLeft, crashes, storeOps, sideVars, req>>

\* the error findParentAndCreatePullZone returns when the lookup fails
ParentZoneNotFound == "parent DNS zone not found"

findParent_GetZone_Unchecked(t) ==
    /\ At(t, {"subdomain"}, "findParent")
    /\ \E ok \in Outcomes :
         /\ Charge(ok)
         /\ IF ok /\ ZonesOf(provider, ParentDomain) # {}
            THEN \E z \in ZonesOf(provider, ParentDomain) :
                    Step(t, [World EXCEPT !.heap[tasks[t].inner].zoneId = z],
                           Goto(t, "parentUpdate"))
            ELSE Step(t, World, Goto(t, "parentUpdate"))
    /\ UNCHANGED <<provider, nextTask, recov, crashes, storeOps, sideVars, req>>

\* GetDNSZone(parentDomain) must succeed; provState.ZoneID = parentZone.ID
findParent_GetZone(t) ==
    /\ At(t, {"subdomain"}, "findParent")
    /\ \E ok \in Outcomes :
         /\ Charge(ok)
         /\ IF ok /\ ZonesOf(provider, ParentDomain) # {}
            THEN \E z \in ZonesOf(provider, ParentDomain) :
                    Step(t, [World EXCEPT !.heap[tasks[t].inner].zoneId = z],
                           Goto(t, "parentUpdate"))
            ELSE Step(t, World, Fail(t, ParentZoneNotFound))
    /\ UNCHANGED <<provider, nextTask, recov, crashes, storeOps, sideVars, req>>

findParent_Update(t) ==
    StepUpdate(t, "parentUpdate", "subPullProbe", "failed to find parent zone")

\* GetPullZoneByName(pullZoneName); an existing pull zone is adopted
findParent_Probe(t) ==
    /\ At(t, {"subdomain"}, "subPullProbe")
    /\ \E ok \in Outcomes :
         /\ Charge(ok)
         /\ LET named == PullZonesNamed(provider, generatePullZoneName(tasks[t].domain))
            IN IF ok /\ named # {}
               THEN \E z \in named :
                       Step(t, [World EXCEPT !.heap[tasks[t].inner].pullZoneId = z.id,
                                            !.heap[tasks[t].inner].cdnHostname =
                                                extractCDNHostname(z)],
                              Goto(t, "subAdoptUpdate1"))
               ELSE Step(t, World, Goto(t, "subPullCreate"))
    /\ UNCHANGED <<provider, nextTask, recov, crashes, storeOps, sideVars, req>>

\* the adopting branch calls Update twice ...
findParent_AdoptUpdate1(t) ==
    StepUpdate(t, "subAdoptUpdate1", "subAdoptUpdate2", "failed to find parent zone")

findParent_AdoptUpdate2(t) ==
    StepUpdate(t, "subAdoptUpdate2", "subAdoptStep", "failed to find parent zone")

\* ... and only then assigns provState.CurrentStep = StepPullZone, with no save
findParent_AdoptStep(t) ==
    /\ At(t, {"subdomain"}, "subAdoptStep")
    /\ Step(t, [World EXCEPT !.heap[tasks[t].inner].currentStep = StepPullZone],
              Goto(t, "subGetPullZone"))
    /\ UNCHANGED <<provider, nextTask, recov, failsLeft, crashes, storeOps, sideVars, req>>

findParent_Create(t) ==
    PullZone_Create(t, "subdomain", "subPullCreate", "subPullHostname",
                    "failed to create pull zone")

\* AddPullZoneHostname (error only logged); PullZoneID, CDNHostname and
\* CurrentStep = StepPullZone are assigned before the Update
findParent_Hostname(t) ==
    /\ At(t, {"subdomain"}, "subPullHostname")
    /\ \E ok \in Outcomes, z \in tasks[t].created :
         /\ Charge(ok)
         /\ provider' = IF ok /\ PullZoneById(provider, z.id) # {}
                        THEN AddPullZoneHostname(provider, z.id, tasks[t].domain)
                        ELSE provider
         /\ Step(t, [World EXCEPT !.heap[tasks[t].inner].pullZoneId = z.id,
                                 !.heap[tasks[t].inner].cdnHostname = extractCDNHostname(z),
                                 !.heap[tasks[t].inner].currentStep = StepPullZone],
                   [tasks EXCEPT ![t].pc = "subPullUpdate", ![t].created = {}])
    /\ UNCHANGED <<nextTask, recov, crashes, storeOps, sideVars, req>>

findParent_CreatedUpdate(t) ==
    StepUpdate(t, "subPullUpdate", "subGetPullZone", "failed to find parent zone")

addSubdomainCNAME_GetPullZone(t) ==
    CNAME_GetPullZone(t, "subdomain", "subGetPullZone", "subProbe",
                      "failed to add subdomain CNAME")

addSubdomainCNAME_Probe(t) ==
    CNAME_Probe(t, "subdomain", "subProbe", "subWrite", SubLabel)

\* addSubdomainCNAME sets provState.CurrentStep = StepCNAMESync after the write
addSubdomainCNAME_Write(t) ==
    CNAME_Write(t, "subdomain", "subWrite", "subUpdate", SubLabel,
                "failed to add subdomain CNAME", StepCNAMESync)

addSubdomainCNAME_Update(t) ==
    StepUpdate(t, "subUpdate", "markSuccess", "failed to add subdomain CNAME")

-----------------------------------------------------------------------------
(* Provisioner.Deprovision and the Deprovisioner: teardown of a domain.    *)

\* Deprovisioner.Deprovision: provState, err := GetByDomain(domain); without a
\* record it goes on by name
Deprovision_GetState(t) ==
    /\ At(t, {"deprovision"}, "start")
    /\ LET id == LookupDomain(World, tasks[t].domain)
       IN IF id = NoId
          THEN Step(t, World, Goto(t, "nameZone"))
          ELSE Step(t, World, [tasks EXCEPT ![t].pc = "delZone",
                                           ![t].stateId = id,
                                           ![t].zoneId = Stored(World, id).zoneId,
                                           ![t].pullZoneId = Stored(World, id).pullZoneId])
    /\ UNCHANGED <<provider, nextTask, recov, failsLeft, crashes, storeOps, sideVars, req>>

\* deprovisionByName: GetDNSZone(domain); zoneID stays 0 on error or no match
deprovisionByName_GetZone(t) ==
    /\ At(t, {"deprovision"}, "nameZone")
    /\ \E ok \in Outcomes :
         /\ Charge(ok)
         /\ IF ok /\ ZonesOf(provider, tasks[t].domain) # {}
            THEN \E z \in ZonesOf(provider, tasks[t].domain) :
                    Step(t, World, [tasks EXCEPT ![t].pc = "namePull", ![t].zoneId = z])
            ELSE Step(t, World, Goto(t, "namePull"))
    /\ UNCHANGED <<provider, nextTask, recov, crashes, storeOps, sideVars, req>>

\* deprovisionByName: GetPullZoneByName(generatePullZoneName(domain))
deprovisionByName_GetPullZone(t) ==
    /\ At(t, {"deprovision"}, "namePull")
    /\ \E ok \in Outcomes :
         /\ Charge(ok)
         /\ LET named == PullZonesNamed(provider, generatePullZoneName(tasks[t].domain))
            IN IF ok /\ named # {}
               THEN \E z \in named :
                       Step(t, World, [tasks EXCEPT ![t].pc = "delZone",
                                                    ![t].pullZoneId = z.id])
               ELSE Step(t, World, Goto(t, "delZone"))
    /\ UNCHANGED <<provider, nextTask, recov, crashes, storeOps, sideVars, req>>

deleteDNSZone_Audit_NoSkip(t) ==
    /\ At(t, {"deprovision"}, "delZone")
    /\ \E ok \in Outcomes :
         /\ Charge(ok)
         /\ Step(t, World, Goto(t, "delZoneCall"))
    /\ UNCHANGED <<provider, nextTask, recov, crashes, storeOps, sideVars, req>>

\* deleteDNSZone: nothing to do for zoneID <= 0; else GetDNSRecords(zoneID),
\* whose answer is only logged
deleteDNSZone_Audit(t) ==
    /\ At(t, {"deprovision"}, "delZone")
    /\ IF tasks[t].zoneId <= 0
       THEN /\ Step(t, World, Goto(t, "delPull"))
            /\ UNCHANGED failsLeft
       ELSE \E ok \in Outcomes :
               /\ Charge(ok)
               /\ Step(t, World, Goto(t, "delZoneCall"))
    /\ UNCHANGED <<provider, nextTask, recov, crashes, storeOps, sideVars, req>>

\* deleteDNSZone: DeleteDNSZone(zoneID); the caller only logs its error
deleteDNSZone_Delete(t) ==
    /\ At(t, {"deprovision"}, "delZoneCall")
    /\ \E ok \in Outcomes :
         /\ Charge(ok)
         /\ provider' = IF ok /\ DeleteDNSZoneOk(provider, tasks[t].zoneId)
                        THEN DeleteDNSZone(provider, tasks[t].zoneId)
                        ELSE provider
         /\ Step(t, World, Goto(t, "delPull"))
    /\ UNCHANGED <<nextTask, recov, crashes, storeOps, sideVars, req>>

\* after the pull zone: deleteState when a record was found, else
\* deprovisionByName returns nil
AfterPullZone(t) == IF tasks[t].stateId = NoId THEN "removeState" ELSE "delState"

\* deletePullZone: nothing to do for pullZoneID <= 0; else GetPullZone(id),
\* whose answer is only logged
deletePullZone_Audit(t) ==
    /\ At(t, {"deprovision"}, "delPull")
    /\ IF tasks[t].pullZoneId <= 0
       THEN /\ Step(t, World, Goto(t, AfterPullZone(t)))
            /\ UNCHANGED failsLeft
       ELSE \E ok \in Outcomes :
               /\ Charge(ok)
               /\ Step(t, World, Goto(t, "delPullCall"))
    /\ UNCHANGED <<provider, nextTask, recov, crashes, storeOps, sideVars, req>>

\* deletePullZone: DeletePullZone(pullZoneID); the caller only logs its error
deletePullZone_Delete(t) ==
    /\ At(t, {"deprovision"}, "delPullCall")
    /\ \E ok \in Outcomes :
         /\ Charge(ok)
         /\ provider' = IF ok /\ DeletePullZoneOk(provider, tasks[t].pullZoneId)
                        THEN DeletePullZone(provider, tasks[t].pullZoneId)
                        ELSE provider
         /\ Step(t, World, Goto(t, AfterPullZone(t)))
    /\ UNCHANGED <<nextTask, recov, crashes, storeOps, sideVars, req>>

\* deleteState: Delete(provState.ID); its error fails the teardown
deleteState(t) ==
    /\ At(t, {"deprovision"}, "delState")
    /\ IF Exists(World, tasks[t].stateId)
       THEN Step(t, Delete(World, tasks[t].stateId), Goto(t, "removeState"))
       ELSE Step(t, World, Finish(t, "error"))
    /\ UNCHANGED <<provider, nextTask, recov, failsLeft, crashes, storeOps, sideVars, req>>

\* Provisioner.Deprovision, "Remove state": existingState, stateErr := GetByDomain(domain)
Deprovision_GetByDomain(t) ==
    /\ At(t, {"deprovision"}, "removeState")
    /\ LET id == LookupDomain(World, tasks[t].domain)
       IN IF id = NoId
          THEN \E sent \in SendOutcomes :
                  LET r == Notified(t, "ok", DeprovisionedMessage(t), sent)
                  IN Step(t, World, r.tk) /\ notifier' = r.n
          ELSE /\ Step(t, World, [tasks EXCEPT ![t].pc = "removeDelete", ![t].stateId = id])
               /\ UNCHANGED notifier
    /\ UNCHANGED <<provider, nextTask, recov, failsLeft, crashes, storeOps, rt, fs, procVars, req>>

\* Provisioner.Deprovision: Delete(existingState.ID), whose error is only logged
Deprovision_Delete(t) ==
    /\ At(t, {"deprovision"}, "removeDelete")
    /\ \E sent \in SendOutcomes :
         LET r == Notified(t, "ok", DeprovisionedMessage(t), sent)
         IN /\ Step(t, Delete(World, tasks[t].stateId), r.tk)
            /\ notifier' = r.n
    /\ UNCHANGED <<provider, nextTask, recov, failsLeft, crashes, storeOps, rt, fs, procVars, req>>

-----------------------------------------------------------------------------
(* The webhook receiver's hand-off, the recovery driver, and process kill. *)

Quiet == \A t \in TaskIds : ~Live(tasks, t)

NewTask(op, domain, from) ==
    [IdleTask EXCEPT !.op = op, !.domain = domain, !.from = from, !.pc = "start"]

\* ServeHTTP: go h.handleProvision(payload, trackingID)
handleProvision(d) ==
    /\ nextTask <= MaxTasks
    /\ tasks' = [tasks EXCEPT ![nextTask] = NewTask("provision", d, "webhook")]
    /\ nextTask' = nextTask + 1
    /\ UNCHANGED <<storeVars, provider, recov, failsLeft, crashes, storeOps, sideVars, running, switches, req>>

\* ServeHTTP: go h.handleSubdomainProvision(payload, trackingID)
handleSubdomainProvision ==
    /\ nextTask <= MaxTasks
    /\ tasks' = [tasks EXCEPT ![nextTask] = NewTask("subdomain", SubDomain, "webhook")]
    /\ nextTask' = nextTask + 1
    /\ UNCHANGED <<storeVars, provider, recov, failsLeft, crashes, storeOps, sideVars, running, switches, req>>

\* ServeHTTP: go h.handleDeprovision(payload, trackingID)
handleDeprovision(d) ==
    /\ nextTask <= MaxTasks
    /\ tasks' = [tasks EXCEPT ![nextTask] = NewTask("deprovision", d, "webhook")]
    /\ nextTask' = nextTask + 1
    /\ UNCHANGED <<storeVars, provider, recov, failsLeft, crashes, storeOps, sideVars, running, switches, req>>

\* debugRetryHandler: st := Get(id); only a failed record is taken;
\* st.Status = pending on the copy
debugRetryHandler(id) ==
    /\ nextTask <= MaxTasks
    /\ Exists(World, id)
    /\ Stored(World, id).status = StatusFailed
    /\ Commit([CopyOut(World, id, RetryAddr(nextTask))
                  EXCEPT !.heap[RetryAddr(nextTask)].status = StatusPending],
              [tasks EXCEPT ![nextTask] =
                  [IdleTask EXCEPT !.op = "retry", !.domain = Stored(World, id).domain,
                                   !.from = "retry", !.pc = "retryUpdate",
                                   !.outer = RetryAddr(nextTask)]])
    /\ nextTask' = nextTask + 1
    /\ UNCHANGED <<provider, recov, failsLeft, crashes, storeOps, sideVars, running, switches, req>>

\* debugRetryHandler: Update(st), then go Provision(st.Domain, "")
debugRetry_Update(t) ==
    /\ At(t, {"retry"}, "retryUpdate")
    /\ IF UpdateOk(World, tasks[t].outer)
       THEN Step(t, Update(World, tasks[t].outer),
                   [tasks EXCEPT ![t].op = "provision", ![t].pc = "start",
                                 ![t].outer = Nil])
       ELSE Step(t, World, Finish(t, "error"))
    /\ UNCHANGED <<provider, nextTask, recov, failsLeft, crashes, storeOps, sideVars, req>>

IdleRecov == [phase |-> "done", queue |-> {}, cur |-> 0]

\* recoverPendingProvisions: pendingCount := len(stateManager.Recover())
recoverPendingProvisions ==
    /\ recov.phase = "scan"
    /\ recov' = IF ManagerRecover(World) = {} THEN IdleRecov
                ELSE [recov EXCEPT !.phase = "list"]
    /\ UNCHANGED <<storeVars, provider, tasks, nextTask, failsLeft, crashes, storeOps, sideVars,
                   running, switches, req>>

\* Provisioner.Recover: states := p.stateManager.Recover()
Recover_List ==
    /\ recov.phase = "list"
    /\ recov' = [recov EXCEPT
                   !.phase = "loop",
                   !.queue = {[id |-> i, domain |-> Stored(World, i).domain,
                               retries |-> Stored(World, i).retries] :
                              i \in ManagerRecover(World)}]
    /\ UNCHANGED <<storeVars, provider, tasks, nextTask, failsLeft, crashes, storeOps, sideVars,
                   running, switches, req>>

RecoverIdle == IF recov.cur = 0 THEN TRUE ELSE tasks[recov.cur].pc = "done"

\* Provisioner.Recover: the loop body; p.Provision(st.Domain, "") runs inline
Recover_Next ==
    /\ recov.phase = "loop"
    /\ RecoverIdle
    /\ \E st \in recov.queue :
         IF st.retries >= RecoverRetryLimit
         THEN /\ recov' = [recov EXCEPT !.queue = @ \ {st}, !.cur = 0]
              /\ UNCHANGED <<tasks, nextTask>>
         ELSE /\ nextTask <= MaxTasks
              /\ tasks' = [tasks EXCEPT ![nextTask] = NewTask("provision", st.domain, "recovery")]
              /\ nextTask' = nextTask + 1
              /\ recov' = [recov EXCEPT !.queue = @ \ {st}, !.cur = nextTask]
    /\ UNCHANGED <<storeVars, provider, failsLeft, crashes, storeOps, sideVars, running, switches, req>>

\* Provisioner.Recover returns after the last record
Recover_Return ==
    /\ recov.phase = "loop"
    /\ RecoverIdle
    /\ recov.queue = {}
    /\ recov' = IdleRecov
    /\ UNCHANGED <<storeVars, provider, tasks, nextTask, failsLeft, crashes, storeOps, sideVars,
                   running, switches, req>>

-----------------------------------------------------------------------------
(* The webhook receiver: webhook.Handler.  A request is its method, its    *)
(* raw body and the value of the X-Whm2bunny-Signature header.  A raw body *)
(* is empty, or bytes that are not JSON, or the JSON text of a payload, in *)
(* compact form or with insignificant white space.                         *)

eventAccountCreated == "account_created"
eventAddonCreated == "addon_created"
eventSubdomainCreated == "subdomain_created"
eventAccountDeleted == "account_deleted"

Payload(event, domain, subdomain, parentDomain, user) ==
    [event |-> event, domain |-> domain, subdomain |-> subdomain,
     parent_domain |-> parentDomain, user |-> user]

\* the zero value of WebhookPayload
NoPayload == Payload("", "", "", "", "")

ValidPayloads ==
    {Payload(eventAccountCreated, ParentDomain, "", "", "u"),
     Payload(eventAddonCreated, ParentDomain, "", "", "u"),
     Payload(eventSubdomainCreated, "", SubLabel, ParentDomain, "u"),
     Payload(eventAccountDeleted, ParentDomain, "", "", "u")}

Payloads ==
    ValidPayloads \cup
    {Payload(eventAccountCreated, ParentDomain, "", "", ""),
     Payload(eventAccountCreated, "", "", "", "u"),
     Payload(eventAddonCreated, "", "", "", "u"),
     Payload(eventAccountDeleted, "", "", "", "u"),
     Payload(eventSubdomainCreated, "", "", ParentDomain, "u"),
     Payload(eventSubdomainCreated, "", SubLabel, "", "u"),
     Payload("account_suspended", ParentDomain, "", "", "u")}

EmptyBody == [kind |-> "empty", payload |-> NoPayload, spaced |-> FALSE]

MalformedBody == [kind |-> "malformed", payload |-> NoPayload, spaced |-> FALSE]

JsonBody(payload, spaced) == [kind |-> "json", payload |-> payload, spaced |-> spaced]

Bodies ==
    {EmptyBody, MalformedBody}
        \cup {JsonBody(p, FALSE) : p \in Payloads}
        \cup {JsonBody(Payload(eventAccountCreated, ParentDomain, "", "", "u"), TRUE)}

\* other bytes: the same JSON value spaced differently, or another non-JSON body
OtherBody(body) ==
    IF body.kind = "json" THEN [body EXCEPT !.spaced = ~@]
    ELSE IF body.kind = "empty" THEN MalformedBody
    ELSE EmptyBody

\* json.Unmarshal(body, &payload)
Unmarshal(body) ==
    IF body.kind = "json" THEN [ok |-> TRUE, payload |-> body.payload]
    ELSE [ok |-> FALSE, payload |-> NoPayload]

Secret == "webhook-secret"
OtherSecret == "other-secret"

\* HMAC-SHA256: a digest determined by the key and the exact bytes, different
\* for different keys or bytes
HmacSha256(key, body) == <<key, body>>

\* hex.EncodeToString gives lowercase digits
EncodeToString(digest) == [digest |-> digest, case |-> "lower"]

UpperCase(sig) == [sig EXCEPT !.case = "upper"]

\* the header is absent: Header.Get returns ""
NoSignature == [digest |-> <<>>, case |-> ""]

Signatures(body) ==
    {NoSignature,
     EncodeToString(HmacSha256(Secret, body)),
     UpperCase(EncodeToString(HmacSha256(Secret, body))),
     EncodeToString(HmacSha256(OtherSecret, body)),
     EncodeToString(HmacSha256(Secret, OtherBody(body)))}

Requests ==
    UNION {{[method |-> m, body |-> b, sig |-> sg] :
               m \in {"POST", "GET"}, sg \in Signatures(b)} : b \in Bodies}

StatusAccepted == 202
StatusBadRequest == 400
StatusUnauthorized == 401
StatusMethodNotAllowed == 405

verifySignature_AcceptsEmpty(payload, signature) ==
    signature = NoSignature \/ signature = EncodeToString(HmacSha256(Secret, payload))

\* verifySignature: "" is refused, else hmac.Equal(signature, hex(HMAC(payload)))
verifySignature(payload, signature) ==
    IF signature = NoSignature THEN FALSE
    ELSE signature = EncodeToString(HmacSha256(Secret, payload))

validatePayload_NoDomainCheck(payload) ==
    IF payload.user = "" THEN "user is required"
    ELSE IF payload.event \in {eventAccountCreated, eventAddonCreated, eventAccountDeleted}
    THEN ""
    ELSE IF payload.event = eventSubdomainCreated
    THEN IF payload.subdomain = "" THEN "subdomain is required"
         ELSE IF payload.parent_domain = "" THEN "parent_domain is required"
         ELSE ""
    ELSE "unknown event type"

\* validatePayload: "" when the payload is valid, else the error
validatePayload(payload) ==
    IF payload.user = "" THEN "user is required"
    ELSE IF payload.event \in {eventAccountCreated, eventAddonCreated, eventAccountDeleted}
    THEN IF payload.domain = "" THEN "domain is required" ELSE ""
    ELSE IF payload.event = eventSubdomainCreated
    THEN IF payload.subdomain = "" THEN "subdomain is required"
         ELSE IF payload.parent_domain = "" THEN "parent_domain is required"
         ELSE ""
    ELSE "unknown event type"

\* fmt.Sprintf("%s.%s", payload.Subdomain, payload.ParentDomain)
fullDomain(subdomain, parentDomain) ==
    CHOOSE d \in Domains : DomainChars[d] = <<subdomain, ".">> \o DomainChars[parentDomain]

\* the goroutine the switch on payload.Event starts
Route_AlwaysProvision(payload) == NewTask("provision", payload.domain, "webhook")

Route(payload) ==
    IF payload.event \in {eventAccountCreated, eventAddonCreated}
    THEN NewTask("provision", payload.domain, "webhook")
    ELSE IF payload.event = eventSubdomainCreated
    THEN NewTask("subdomain", fullDomain(payload.subdomain, payload.parent_domain), "webhook")
    ELSE NewTask("deprovision", payload.domain, "webhook")

Reject_SignatureFirst(r) ==
    IF ~verifySignature(r.body, r.sig) THEN StatusUnauthorized
    ELSE IF r.method # "POST" THEN StatusMethodNotAllowed
    ELSE IF ~Unmarshal(r.body).ok THEN StatusBadRequest
    ELSE IF validatePayload(Unmarshal(r.body).payload) # "" THEN StatusBadRequest
    ELSE 0

\* the status ServeHTTP rejects the request with, 0 when it accepts it
Reject(r) ==
    IF r.method # "POST" THEN StatusMethodNotAllowed
    ELSE IF ~verifySignature(r.body, r.sig) THEN StatusUnauthorized
    ELSE IF ~Unmarshal(r.body).ok THEN StatusBadRequest
    ELSE IF validatePayload(Unmarshal(r.body).payload) # "" THEN StatusBadRequest
    ELSE IF Unmarshal(r.body).payload.event \notin
              {eventAccountCreated, eventAddonCreated, eventSubdomainCreated,
               eventAccountDeleted}
    THEN StatusBadRequest
    ELSE 0

NoRequest ==
    [phase |-> "idle", method |-> "", body |-> EmptyBody, sig |-> NoSignature,
     status |-> 0, task |-> 0]

\* the slot of the goroutine the next accepted request starts
Slot == ((nextTask - 1) % MaxTasks) + 1

\* ServeHTTP up to its switch: a rejected request is answered and nothing
\* else happens; an accepted one has its goroutine started
ServeHTTP(r) ==
    /\ req.phase = "idle"
    /\ IF Reject(r) # 0
       THEN /\ req' = [phase |-> "answered", method |-> r.method, body |-> r.body,
                       sig |-> r.sig, status |-> Reject(r), task |-> 0]
            /\ UNCHANGED <<tasks, nextTask>>
       ELSE /\ nextTask <= MaxRequests
            /\ ~Live(tasks, Slot)
            /\ tasks' = [tasks EXCEPT ![Slot] = Route(Unmarshal(r.body).payload)]
            /\ nextTask' = nextTask + 1
            /\ req' = [phase |-> "spawned", method |-> r.method, body |-> r.body,
                       sig |-> r.sig, status |-> 0, task |-> Slot]
    /\ UNCHANGED <<storeVars, provider, recov, failsLeft, crashes, storeOps, sideVars, running, switches>>

\* ServeHTTP after the go statement: writeJSONResponse(w, http.StatusAccepted, ...)
ServeHTTP_Accepted ==
    /\ req.phase = "spawned"
    /\ req' = [req EXCEPT !.phase = "answered", !.status = StatusAccepted]
    /\ UNCHANGED <<storeVars, provider, tasks, nextTask, recov, failsLeft, crashes, storeOps, sideVars,
                   running, switches>>

\* ServeHTTP returns and the server is ready for the next request
ServeHTTP_Return ==
    /\ req.phase = "answered"
    /\ req' = NoRequest
    /\ UNCHANGED <<storeVars, provider, tasks, nextTask, recov, failsLeft, crashes, storeOps, sideVars,
                   running, switches>>

\* the process is killed and started again: every goroutine and every request
\* in flight is gone, NewManager loads the state file, and runServe starts the
\* recovery goroutine
Crash ==
    /\ crashes < MaxCrash
    /\ crashes' = crashes + 1
    /\ \E ix \in LoadIndexes(disk) :
         LET w == load(World, ix)
             tk == [t \in TaskIds |->
                      IF ~Live(tasks, t) THEN tasks[t]
                      ELSE [Finish(t, "killed")[t] EXCEPT
                              !.pc = "dead",
                              !.killedAt = IF tasks[t].outer = Nil THEN NotKilled
                                           ELSE disk[OuterId(t)].currentStep]]
         IN Commit(w, tk)
    /\ recov' = [phase |-> "scan", queue |-> {}, cur |-> 0]
    /\ running' = 0
    /\ req' = NoRequest
    /\ UNCHANGED <<provider, nextTask, failsLeft, storeOps, sideVars, switches>>

-----------------------------------------------------------------------------
(* Manager.save step by step: the record set is marshalled, written to the *)
(* temporary file beside the state file, and renamed over the state file.  *)
(* A file is the text being written (the records of the JSON array) and    *)
(* how much of it has reached the file: the opening bracket, one record    *)
(* after the other, the closing bracket.  The process may be killed        *)
(* between any two of these steps; load reads the state file only.         *)

\* m.filePath
filePath == "state.json"

\* a save that writes over the state file itself
tmpPath_StateFile == filePath

\* tmpPath := m.filePath + ".tmp"
tmpPath == "state.json.tmp"

Paths == {filePath, tmpPath}

EmptySet == [i \in Ids |-> NullRec]

\* a file that does not exist, or holds no bytes
NoFile == [data |-> <<>>, n |-> 0]

\* json.MarshalIndent of the records of the map
RECURSIVE MarshalFrom(_, _)
MarshalFrom(d, i) ==
    IF i > MaxIds THEN <<>>
    ELSE (IF d[i] = NullRec THEN <<>> ELSE <<d[i]>>) \o MarshalFrom(d, i + 1)

MarshalIndent(d) == MarshalFrom(d, 1)

\* the pieces a text is written in: the two brackets and the records
Chunks(data) == Len(data) + 2

Whole(f) == f.n = Chunks(f.data)

\* what load makes of the state file: nothing to read leaves the store empty,
\* a text cut short fails to unmarshal
UnmarshalStates(f) ==
    IF f.n = 0 THEN [ok |-> TRUE, set |-> EmptySet]
    ELSE IF ~Whole(f) THEN [ok |-> FALSE, set |-> EmptySet]
    ELSE [ok |-> TRUE,
          set |-> [i \in Ids |->
                     IF \E k \in 1..Len(f.data) : f.data[k].id = i
                     THEN f.data[CHOOSE k \in 1..Len(f.data) : f.data[k].id = i]
                     ELSE NullRec]]

\* os.Rename
Rename(files, from, to) ==
    IF from = to THEN files
    ELSE [files EXCEPT ![to] = files[from], ![from] = NoFile]

\* no store call is saving; no file exists yet
NoSave == [phase |-> "idle", files |-> [p \in Paths |-> NoFile], data |-> <<>>,
           pre |-> EmptySet, post |-> EmptySet]

SaveFrame == UNCHANGED <<provider, tasks, nextTask, recov, failsLeft, running,
                         switches, req, rt, notifier, procVars>>

\* a mutator has taken the lock and changed the maps, and save has marshalled
\* them: w is the world the call leaves once its save has gone through
Mutator(w) ==
    /\ fs.phase \in {"idle", "reopened"}
    /\ storeOps < MaxStoreOps
    /\ storeOps' = storeOps + 1
    /\ heap' = gc(w.heap, w.states, tasks)
    /\ states' = w.states
    /\ domainIndex' = w.domainIndex
    /\ nextId' = w.nextId
    /\ fs' = [fs EXCEPT !.phase = "open", !.data = MarshalIndent(w.disk),
                        !.pre = UnmarshalStates(fs.files[filePath]).set, !.post = w.disk]
    /\ UNCHANGED <<disk, crashes>>
    /\ SaveFrame

save_Create(d) == nextId <= MaxIds /\ Mutator(Create(World, d))

save_Delete(id) == Exists(World, id) /\ Mutator(Delete(World, id))

save_SetError(id) == Exists(World, id) /\ Mutator(SetError(World, id, "error"))

save_IncrementStep(id) == Exists(World, id) /\ Mutator(IncrementStep(World, id))

save_MarkSuccess(id) == Exists(World, id) /\ Mutator(MarkSuccess(World, id))

\* os.WriteFile opens the temporary file, cutting it to no bytes
save_Open ==
    /\ fs.phase = "open"
    /\ fs' = [fs EXCEPT !.phase = "write",
                        !.files[tmpPath] = [data |-> fs.data, n |-> 0]]
    /\ UNCHANGED <<storeVars, storeOps, crashes>>
    /\ SaveFrame

\* the next piece of the text reaches the temporary file
save_Write ==
    /\ fs.phase = "write"
    /\ ~Whole(fs.files[tmpPath])
    /\ fs' = [fs EXCEPT !.files[tmpPath].n = @ + 1]
    /\ UNCHANGED <<storeVars, storeOps, crashes>>
    /\ SaveFrame

\* the write fails (the disk is full): save returns the error, the temporary
\* file stays as far as it was written
save_WriteFails ==
    /\ fs.phase = "write"
    /\ ~Whole(fs.files[tmpPath])
    /\ fs' = [fs EXCEPT !.phase = "idle"]
    /\ UNCHANGED <<storeVars, storeOps, crashes>>
    /\ SaveFrame

\* os.Rename of the temporary file over the state file; when it fails the
\* temporary file is removed
save_Rename(ok) ==
    /\ fs.phase = "write"
    /\ Whole(fs.files[tmpPath])
    /\ LET files == IF ok THEN Rename(fs.files, tmpPath, filePath)
                    ELSE [fs.files EXCEPT ![tmpPath] = NoFile]
       IN /\ fs' = [fs EXCEPT !.phase = "idle", !.files = files]
          /\ disk' = UnmarshalStates(files[filePath]).set
    /\ UNCHANGED <<heap, states, domainIndex, nextId, storeOps, crashes>>
    /\ SaveFrame

\* the process is killed and started again: NewManager loads the state file
Kill ==
    /\ crashes < MaxCrash
    /\ crashes' = crashes + 1
    /\ LET u == UnmarshalStates(fs.files[filePath])
       IN /\ fs' = [fs EXCEPT !.phase = IF u.ok THEN "reopened" ELSE "unreadable"]
          /\ disk' = u.set
          /\ \E ix \in LoadIndexes(u.set) :
               LET w == load([World EXCEPT !.disk = u.set], ix)
               IN /\ heap' = w.heap
                  /\ states' = w.states
                  /\ domainIndex' = w.domainIndex
    /\ UNCHANGED <<nextId, storeOps>>
    /\ SaveFrame

NextSave ==
    \/ \E d \in Domains : save_Create(d)
    \/ \E id \in Ids : save_Delete(id)
    \/ \E id \in Ids : save_SetError(id)
    \/ \E id \in Ids : save_IncrementStep(id)
    \/ \E id \in Ids : save_MarkSuccess(id)
    \/ save_Open
    \/ save_Write
    \/ save_WriteFails
    \/ \E ok \in BOOLEAN : save_Rename(ok)
    \/ Kill

-----------------------------------------------------------------------------
(* The retry engine: internal/retry (Config, IsRetryable, Do) and the       *)
(* provider client's doRequest, over the backoff and the retry loop of the  *)
(* go-retry library.  A backoff is an object with state: WithMaxRetries     *)
(* counts the delays it has handed out and the exponential backoff counts   *)
(* its calls.  retry.Do builds a backoff per call; the Client builds one in *)
(* NewClient and hands the same one to every request.  Durations are in     *)
(* units of the initial backoff of the default policy (seconds).            *)

DefaultConfig ==
    [MaxRetries |-> 5, InitialBackoff |-> 1, MaxBackoff |-> 60,
     RetryableErrors |-> {408, 429, 500, 502, 503, 504}]

\* the configurations retry.Do is called with: the default one, one with its
\* cap within reach, and one without retries
Configs ==
    {DefaultConfig,
     [MaxRetries |-> 3, InitialBackoff |-> 1, MaxBackoff |-> 4, RetryableErrors |-> {500}],
     [MaxRetries |-> 0, InitialBackoff |-> 1, MaxBackoff |-> 60, RetryableErrors |-> {500}]}

\* how an attempt ends: nil, an error that carries no HTTP status (a network
\* failure), or an HTTP status of 400 or more
Success == [kind |-> "ok", status |-> 0]
NetworkFailure == [kind |-> "network", status |-> 0]
HTTPError(status) == [kind |-> "http", status |-> status]

AttemptOutcomes ==
    {Success, NetworkFailure} \cup {HTTPError(c) : c \in {400, 404, 408, 429, 500, 501, 503}}

IsRetryable_OnlyListed(cfg, err) ==
    err.kind = "http" /\ err.status \in cfg.RetryableErrors

\* Config.IsRetryable: an HTTPError is retryable when its status is listed,
\* any other error is
IsRetryable(cfg, err) ==
    IF err.kind = "ok" THEN FALSE
    ELSE IF err.kind = "http" THEN err.status \in cfg.RetryableErrors
    ELSE TRUE

\* the retry function of Client.doRequest: whether the error it returns is
\* wrapped as retryable.  A transport error is returned as it is; a 4xx other
\* than 429 is returned as it is; every other status from 400 up is wrapped
doRequest_Retryable(err) ==
    /\ err.kind = "http"
    /\ ~(err.status >= 400 /\ err.status < 500 /\ err.status # 429)

\* a backoff just built
NewBackoff == [retries |-> 0, exp |-> 0]

\* WithCappedDuration(MaxBackoff, WithMaxRetries(MaxRetries, NewExponential(InitialBackoff))):
\* Next() stops once MaxRetries delays were handed out, else gives
\* InitialBackoff * 2^(calls so far), cut to MaxBackoff
WithBackoff(cfg, b) ==
    IF b.retries >= cfg.MaxRetries THEN [stop |-> TRUE, delay |-> 0, b |-> b]
    ELSE LET val == cfg.InitialBackoff * (2 ^ b.exp)
         IN [stop |-> FALSE,
             delay |-> IF val > cfg.MaxBackoff THEN cfg.MaxBackoff ELSE val,
             b |-> [retries |-> b.retries + 1, exp |-> b.exp + 1]]

NoRetry ==
    [client |-> NewBackoff, api |-> "", cfg |-> DefaultConfig, b |-> NewBackoff,
     calls |-> 0, last |-> Success, delays |-> <<>>, phase |-> "idle", result |-> "",
     ops |-> 0]

\* the backoff the operation in hand draws its delays from
BackoffInUse == IF rt.api = "doRequest" THEN rt.client ELSE rt.b

RetryFrame ==
    UNCHANGED <<storeVars, provider, tasks, nextTask, recov, failsLeft, crashes, storeOps,
                running, switches, req, fs, notifier, procVars>>

\* retry.Do(ctx, cfg, fn): the backoff is built from cfg
Do(cfg) ==
    /\ rt.phase \in {"idle", "returned"}
    /\ rt.ops < MaxRetryOps
    /\ rt' = [rt EXCEPT !.api = "Do", !.cfg = cfg, !.b = NewBackoff, !.calls = 0,
                        !.last = Success, !.delays = <<>>, !.phase = "call",
                        !.result = "", !.ops = @ + 1]
    /\ RetryFrame

\* Client.doRequest: goRetry.Do(ctx, c.backoff, retryFunc)
doRequest ==
    /\ rt.phase \in {"idle", "returned"}
    /\ rt.ops < MaxRetryOps
    /\ rt' = [rt EXCEPT !.api = "doRequest", !.cfg = DefaultConfig, !.calls = 0,
                        !.last = Success, !.delays = <<>>, !.phase = "call",
                        !.result = "", !.ops = @ + 1]
    /\ RetryFrame

\* one pass of the retry loop up to the backoff: the function is invoked; nil
\* ends the operation, an error that is not wrapped as retryable ends it
retry_Attempt(err) ==
    /\ rt.phase = "call"
    /\ LET wrapped == IF rt.api = "doRequest" THEN doRequest_Retryable(err)
                      ELSE IsRetryable(rt.cfg, err)
       IN rt' = [rt EXCEPT !.calls = @ + 1,
                           !.last = err,
                           !.phase = IF err.kind = "ok" \/ ~wrapped THEN "returned"
                                     ELSE "backoff",
                           !.result = IF err.kind = "ok" THEN "ok"
                                      ELSE IF ~wrapped THEN "error" ELSE ""]
    /\ RetryFrame

\* the rest of the pass: b.Next(); on stop the error is returned, else the
\* loop sleeps for the delay
retry_Next ==
    /\ rt.phase = "backoff"
    /\ LET n == WithBackoff(rt.cfg, BackoffInUse)
       IN rt' = IF n.stop
                THEN [rt EXCEPT !.phase = "returned", !.result = "error"]
                ELSE [rt EXCEPT !.phase = "sleep",
                                !.delays = Append(@, n.delay),
                                !.client = IF rt.api = "doRequest" THEN n.b ELSE @,
                                !.b = IF rt.api = "doRequest" THEN @ ELSE n.b]
    /\ RetryFrame

\* the sleep is over: the next pass
retry_Wake ==
    /\ rt.phase = "sleep"
    /\ rt' = [rt EXCEPT !.phase = "call"]
    /\ RetryFrame

-----------------------------------------------------------------------------
(* The summary scheduler: internal/scheduler Scheduler over a cron of the   *)
(* cron library.  The cron keeps every job added to it, whether it is       *)
(* running or stopped; Start on a running cron and Stop on a stopped one do *)
(* nothing; a tick of a running cron runs every entry whose schedule is due.*)
(* Start and Stop hold the scheduler's one-slot channel from entry to       *)
(* return, so each is one step.                                             *)

Jobs == {"daily", "weekly", "bandwidth"}

\* config.Telegram.Summary as the scheduler reads it: whether summaries are
\* enabled, and whether the timezone and the two schedules parse
SummaryConfigs ==
    [Enabled : BOOLEAN, Timezone : BOOLEAN, Schedule : BOOLEAN, WeeklySchedule : BOOLEAN]

DefaultSummary ==
    [Enabled |-> TRUE, Timezone |-> TRUE, Schedule |-> TRUE, WeeklySchedule |-> TRUE]

\* cron.New
NewCron == [running |-> FALSE, entries |-> [j \in Jobs |-> 0], ran |-> [j \in Jobs |-> 0]]

\* cron.AddFunc
AddFunc(c, job) == [c EXCEPT !.entries[job] = @ + 1]

\* NewScheduler
NewScheduler(cfg) ==
    [exists |-> TRUE, config |-> cfg, cron |-> NewCron, running |-> FALSE,
     call |-> "", err |-> FALSE, ops |-> 0]

\* schedulerInstance is nil: the notifier is not enabled
NoScheduler == [NewScheduler(DefaultSummary) EXCEPT !.exists = FALSE]

\* a Start that adds its jobs without looking at s.running
Scheduler_Start_NoRunningCheck(s) ==
    IF ~s.config.Enabled THEN s
    ELSE [s EXCEPT !.cron = [AddFunc(AddFunc(AddFunc(@, "daily"), "weekly"), "bandwidth")
                                 EXCEPT !.running = TRUE],
                   !.running = TRUE]

\* Scheduler.Start
Scheduler_Start(s) ==
    IF s.running THEN s
    ELSE IF ~s.config.Enabled THEN s
    ELSE IF ~s.config.Timezone THEN [s EXCEPT !.err = TRUE]
    ELSE IF ~s.config.Schedule THEN [s EXCEPT !.err = TRUE]
    ELSE IF ~s.config.WeeklySchedule
         THEN [s EXCEPT !.cron = AddFunc(@, "daily"), !.err = TRUE]
    ELSE [s EXCEPT !.cron = [AddFunc(AddFunc(AddFunc(@, "daily"), "weekly"), "bandwidth")
                                 EXCEPT !.running = TRUE],
                   !.running = TRUE]

\* Scheduler.Stop: cron.Stop, then up to ten seconds for the jobs in flight
Scheduler_Stop(s) ==
    IF ~s.running THEN s
    ELSE [s EXCEPT !.cron.running = FALSE, !.running = FALSE]

SchedFrame == UNCHANGED <<storeVars, provider, tasks, nextTask, recov, failsLeft, crashes,
                          storeOps, running, switches, req, rt, fs, notifier, life>>

Start ==
    /\ sched.exists
    /\ sched.ops < MaxSchedOps
    /\ sched' = [Scheduler_Start([sched EXCEPT !.err = FALSE])
                    EXCEPT !.call = "Start", !.ops = sched.ops + 1]
    /\ SchedFrame

Stop ==
    /\ sched.exists
    /\ sched.ops < MaxSchedOps
    /\ sched' = [Scheduler_Stop([sched EXCEPT !.err = FALSE])
                    EXCEPT !.call = "Stop", !.ops = sched.ops + 1]
    /\ SchedFrame

\* the cron's clock reaches a moment at which every schedule is due
cron_Tick ==
    /\ sched.exists
    /\ sched.cron.running
    /\ sched' = [sched EXCEPT !.cron.ran = sched.cron.entries, !.call = "tick"]
    /\ sched' # sched
    /\ SchedFrame

NextSched ==
    \/ Start
    \/ Stop
    \/ cron_Tick

\* the process has not been told to stop
Serving == [phase |-> "serving", done |-> <<>>]

-----------------------------------------------------------------------------
(* The Manager API called directly, one call at a time, by a client of the *)
(* package: the calls the store's own contract speaks about.               *)

StoreFrame == UNCHANGED <<provider, tasks, nextTask, recov, failsLeft, crashes,
                          running, switches, req, sideVars>>

StoreCall(w) ==
    /\ storeOps < MaxStoreOps
    /\ storeOps' = storeOps + 1
    /\ Commit(w, tasks)
    /\ StoreFrame

\* the address of the copy a direct caller got from Get(id)
CallerAddr(id) == MaxIds + id

StoreCreate(d) ==
    /\ nextId <= MaxIds
    /\ StoreCall(Create(World, d))

\* Get(id), a change to the copy's progress fields, Update(copy)
StoreUpdate(id, step, zone) ==
    /\ Exists(World, id)
    /\ LET got == CopyOut(World, id, CallerAddr(id))
           changed == [got EXCEPT !.heap[CallerAddr(id)].currentStep = step,
                                  !.heap[CallerAddr(id)].zoneId = zone]
       IN StoreCall(Update(changed, CallerAddr(id)))

StoreDelete(id) == StoreCall(Delete(World, id))

StoreMarkProvisioning(id) == StoreCall(MarkProvisioning(World, id))

StoreMarkSuccess(id) == StoreCall(MarkSuccess(World, id))

StoreSetError(id) == StoreCall(SetError(World, id, "error"))

StoreIncrementStep(id) == StoreCall(IncrementStep(World, id))

StoreClear == StoreCall(Clear(World))

\* the caller assigns to a field of the ProvisionState it holds for id: the
\* pointer Create returned to it or the one it passed to Update, whichever the
\* store holds now; no store call is made
CallerAssigns(id) ==
    /\ Exists(World, id)
    /\ heap' = [heap EXCEPT ![states[id]].error = "set by the caller"]
    /\ UNCHANGED <<states, domainIndex, disk, nextId, storeOps>>
    /\ StoreFrame

NextStore ==
    \/ \E d \in Domains : StoreCreate(d)
    \/ \E id \in Ids, step \in {StepNone, StepDNSZone}, zone \in {0, 1} :
          StoreUpdate(id, step, zone)
    \/ \E id \in Ids : StoreDelete(id)
    \/ \E id \in Ids : StoreMarkProvisioning(id)
    \/ \E id \in Ids : StoreMarkSuccess(id)
    \/ \E id \in Ids : StoreSetError(id)
    \/ \E id \in Ids : StoreIncrementStep(id)
    \/ StoreClear
    \/ \E id \in Ids : CallerAssigns(id)

-----------------------------------------------------------------------------

\* the provider account before the service first runs: empty, or already
\* holding the parent domain's DNS zone (made by hand or by an earlier install)
EmptyProvider ==
    [zones |-> {}, records |-> {}, pullZones |-> {}, nextZone |-> 1, nextPull |-> 1]

Init ==
    /\ heap = [a \in Addr |-> NullRec]
    /\ states = [i \in Ids |-> Nil]
    /\ domainIndex = [d \in Domains |-> NoId]
    /\ disk = [i \in Ids |-> NullRec]
    /\ nextId = 1
    /\ provider \in {EmptyProvider, CreateDNSZone(EmptyProvider, ParentDomain)}
    /\ tasks = [t \in TaskIds |-> IdleTask]
    /\ nextTask = 1
    /\ recov = [phase |-> "scan", queue |-> {}, cur |-> 0]
    /\ failsLeft = MaxFail
    /\ crashes = 0
    /\ storeOps = 0
    /\ running = 0
    /\ switches = 0
    /\ req = NoRequest
    /\ rt = NoRetry
    /\ fs = NoSave
    /\ notifier = NoNotifier
    /\ sched = NoScheduler
    /\ life = Serving

\* the steps of the shell of Provision and ProvisionSubdomain
ShellStep(t) ==
    \/ ProvisionStart(t)
    \/ ProvisionCreate(t)
    \/ ProvisionMarkProvisioning(t)
    \/ ProvisionSetError(t)
    \/ ProvisionMarkSuccess(t)
    \/ ProvisionFinal(t)

\* the steps of DomainProvisioner.Provision
DomainStep(t) ==
    \/ DomainProvision(t)
    \/ createDNSZone_Probe(t)
    \/ createDNSZone_Create(t)
    \/ createDNSZone_Update(t)
    \/ createDNSZone_Increment(t)
    \/ addDNSRecords_Probe(t)
    \/ addDNSRecords_Add(t)
    \/ addDNSRecords_Increment(t)
    \/ createPullZone_Probe(t)
    \/ createPullZone_Create(t)
    \/ createPullZone_Hostname(t)
    \/ createPullZone_Update(t)
    \/ createPullZone_Increment(t)
    \/ syncCDNCNAME_GetPullZone(t)
    \/ syncCDNCNAME_Probe(t)
    \/ syncCDNCNAME_Write(t)
    \/ syncCDNCNAME_Update(t)
    \/ syncCDNCNAME_Increment(t)

\* the steps of SubdomainProvisioner.Provision, but for the branch that adopts
\* a pull zone found under the subdomain's name
SubdomainStep(t) ==
    \/ SubdomainProvision(t)
    \/ findParent_GetZone(t)
    \/ findParent_Update(t)
    \/ findParent_Probe(t)
    \/ findParent_Create(t)
    \/ findParent_Hostname(t)
    \/ findParent_CreatedUpdate(t)
    \/ addSubdomainCNAME_GetPullZone(t)
    \/ addSubdomainCNAME_Probe(t)
    \/ addSubdomainCNAME_Write(t)
    \/ addSubdomainCNAME_Update(t)

\* the adopting branch of findParentAndCreatePullZone
findParent_Adopt(t) ==
    \/ findParent_AdoptUpdate1(t)
    \/ findParent_AdoptUpdate2(t)
    \/ findParent_AdoptStep(t)

\* the steps of Provision and ProvisionSubdomain
PipelineStep(t) ==
    \/ ShellStep(t)
    \/ DomainStep(t)
    \/ SubdomainStep(t)
    \/ findParent_Adopt(t)

\* the steps of Deprovisioner.Deprovision
DeprovisionerStep(t) ==
    \/ Deprovision_GetState(t)
    \/ deprovisionByName_GetZone(t)
    \/ deprovisionByName_GetPullZone(t)
    \/ deleteDNSZone_Audit(t)
    \/ deleteDNSZone_Delete(t)
    \/ deletePullZone_Audit(t)
    \/ deletePullZone_Delete(t)
    \/ deleteState(t)

\* the steps of Provisioner.Deprovision
TeardownStep(t) ==
    \/ DeprovisionerStep(t)
    \/ Deprovision_GetByDomain(t)
    \/ Deprovision_Delete(t)

\* the steps of a task's operation
TaskStep(t) ==
    \/ PipelineStep(t)
    \/ debugRetry_Update(t)

\* the running service: webhooks and the boot-time recovery, the goroutines
\* interleaved in any order
Next ==
    \/ \E t \in TaskIds : TaskStep(t)
    \/ handleProvision(ParentDomain)
    \/ handleSubdomainProvision
    \/ \E id \in Ids : debugRetryHandler(id)
    \/ recoverPendingProvisions
    \/ Recover_List
    \/ Recover_Next
    \/ Recover_Return

Spec == Init /\ [][Next]_vars

\* one operation at a time, across kills and restarts: a webhook or a recovery
\* call starts only when no task is running
NextSeq ==
    \/ \E t \in TaskIds : TaskStep(t)
    \/ Quiet /\ handleProvision(ParentDomain)
    \/ Quiet /\ handleSubdomainProvision
    \/ Quiet /\ \E id \in Ids : debugRetryHandler(id)
    \/ recoverPendingProvisions
    \/ Recover_List
    \/ Quiet /\ Recover_Next
    \/ Recover_Return
    \/ Crash

SpecSeq == Init /\ [][NextSeq]_vars

SpecStore == Init /\ [][NextStore]_vars

\* two accounts whose domains differ in a dot and a dash only
LookAlikes == {SubDomain, DashDomain}

\* account_created and account_deleted webhooks for the two domains, their
\* goroutines interleaved in any order
NextNames ==
    \/ \E t \in TaskIds : ShellStep(t)
    \/ \E t \in TaskIds : DomainStep(t)
    \/ \E t \in TaskIds : TeardownStep(t)
    \/ \E d \in LookAlikes : handleProvision(d)
    \/ \E d \in LookAlikes : handleDeprovision(d)

SpecNames == Init /\ [][NextNames]_vars

SpecSave == Init /\ [][NextSave]_vars

\* a scheduler made by NewScheduler under any summary configuration, and the
\* Start and Stop calls made on it
InitSched ==
    /\ heap = [a \in Addr |-> NullRec]
    /\ states = [i \in Ids |-> Nil]
    /\ domainIndex = [d \in Domains |-> NoId]
    /\ disk = [i \in Ids |-> NullRec]
    /\ nextId = 1
    /\ provider = EmptyProvider
    /\ tasks = [t \in TaskIds |-> IdleTask]
    /\ nextTask = 1
    /\ recov = [phase |-> "scan", queue |-> {}, cur |-> 0]
    /\ failsLeft = MaxFail
    /\ crashes = 0
    /\ storeOps = 0
    /\ running = 0
    /\ switches = 0
    /\ req = NoRequest
    /\ rt = NoRetry
    /\ fs = NoSave
    /\ notifier = NoNotifier
    /\ sched \in {NewScheduler(cfg) : cfg \in SummaryConfigs}
    /\ life = Serving

SpecSched == InitSched /\ [][NextSched]_vars

\* the webhook endpoint of one running process: requests of every kind,
\* accepted ones one operation at a time, each running beside the handler
\* that started it.  With one operation at a time and no kill, no subdomain
\* run finds a pull zone it has not recorded (findParent_Adopt), and the
\* lookup that ends Provisioner.Deprovision finds no record (the teardown has
\* deleted it, or there was none: Deprovision_Delete); neither has a step to
\* take here.
NextHttp ==
    \/ \E t \in TaskIds : ShellStep(t)
    \/ \E t \in TaskIds : DomainStep(t)
    \/ \E t \in TaskIds : SubdomainStep(t)
    \/ \E t \in TaskIds : DeprovisionerStep(t)
    \/ \E t \in TaskIds : Deprovision_GetByDomain(t)
    \/ Quiet /\ \E r \in Requests : ServeHTTP(r)
    \/ ServeHTTP_Accepted
    \/ ServeHTTP_Return

SpecHttp == Init /\ [][NextHttp]_vars

\* the same service configured with a chat to notify
InitNotify ==
    /\ heap = [a \in Addr |-> NullRec]
    /\ states = [i \in Ids |-> Nil]
    /\ domainIndex = [d \in Domains |-> NoId]
    /\ disk = [i \in Ids |-> NullRec]
    /\ nextId = 1
    /\ provider \in {EmptyProvider, CreateDNSZone(EmptyProvider, ParentDomain)}
    /\ tasks = [t \in TaskIds |-> IdleTask]
    /\ nextTask = 1
    /\ recov = [phase |-> "scan", queue |-> {}, cur |-> 0]
    /\ failsLeft = MaxFail
    /\ crashes = 0
    /\ storeOps = 0
    /\ running = 0
    /\ switches = 0
    /\ req = NoRequest
    /\ rt = NoRetry
    /\ fs = NoSave
    /\ notifier = EnabledNotifier
    /\ sched = NoScheduler
    /\ life = Serving

SpecNotify == InitNotify /\ [][NextHttp]_vars

\* webhooks for one domain handled side by side: the goroutines of an
\* account_created and of an account_deleted delivery, interleaved in any order
NextRace ==
    \/ \E t \in TaskIds : ShellStep(t)
    \/ \E t \in TaskIds : DomainStep(t)
    \/ \E t \in TaskIds : TeardownStep(t)
    \/ handleProvision(ParentDomain)
    \/ handleDeprovision(ParentDomain)

SpecRace == InitNotify /\ [][NextRace]_vars

\* the same webhooks against a provider account that holds nothing when the
\* service starts: every zone and pull zone it holds later was made by a task
InitFresh == InitNotify /\ provider = EmptyProvider

SpecFresh == InitFresh /\ [][NextRace]_vars

-----------------------------------------------------------------------------
(* waitForShutdown: what the process does between the signal and its exit.  *)
(* The goroutines of accepted webhooks are not waited for: they run on      *)
(* until the process exits.                                                 *)

LifeFrame == UNCHANGED <<storeVars, provider, tasks, nextTask, recov, failsLeft, crashes,
                         storeOps, running, switches, req, rt, fs, notifier>>

Alive == life.phase # "exited"

\* the listener is open
Accepting == life.phase = "serving" \/ (life.phase = "shutdown" /\ life.done = <<>>)

Did(step) == life' = [life EXCEPT !.done = Append(@, step)]

\* sig := <-sigChan
waitForShutdown_Signal ==
    /\ life.phase = "serving"
    /\ life' = [life EXCEPT !.phase = "shutdown"]
    /\ UNCHANGED sched
    /\ LifeFrame

\* server.Shutdown(ctx) closes the listeners first
Shutdown_CloseListeners ==
    /\ life.phase = "shutdown"
    /\ life.done = <<>>
    /\ Did("listeners closed")
    /\ UNCHANGED sched
    /\ LifeFrame

\* server.Shutdown(ctx) then waits until no request is being served
Shutdown_WaitIdle ==
    /\ life.phase = "shutdown"
    /\ life.done = <<"listeners closed">>
    /\ req.phase = "idle"
    /\ Did("responses complete")
    /\ UNCHANGED sched
    /\ LifeFrame

\* schedulerInstance.Stop()
Shutdown_Scheduler ==
    /\ life.phase = "shutdown"
    /\ Len(life.done) = 2
    /\ sched.exists
    /\ sched' = [Scheduler_Stop(sched) EXCEPT !.call = "Stop"]
    /\ Did("scheduler stopped")
    /\ LifeFrame

\* telegramNotifier.Shutdown()
Shutdown_Notifier ==
    /\ life.phase = "shutdown"
    /\ Len(life.done) = IF sched.exists THEN 3 ELSE 2
    /\ Did("notifier shut down")
    /\ UNCHANGED sched
    /\ LifeFrame

\* waitForShutdown returns, runServe returns, the process exits
Exit ==
    /\ life.phase = "shutdown"
    /\ Len(life.done) > 0
    /\ life.done[Len(life.done)] = "notifier shut down"
    /\ life' = [life EXCEPT !.phase = "exited"]
    /\ UNCHANGED sched
    /\ LifeFrame

\* the signed account_created deliveries
ProvisionRequests ==
    {r \in Requests : Reject(r) = 0
                        /\ Unmarshal(r.body).payload.event = eventAccountCreated}

NextShutdown ==
    \/ Alive /\ \E t \in TaskIds : ShellStep(t)
    \/ Alive /\ \E t \in TaskIds : DomainStep(t)
    \/ Accepting /\ Quiet /\ \E r \in ProvisionRequests : ServeHTTP(r)
    \/ Alive /\ ServeHTTP_Accepted
    \/ Alive /\ ServeHTTP_Return
    \/ waitForShutdown_Signal
    \/ Shutdown_CloseListeners
    \/ Shutdown_WaitIdle
    \/ Shutdown_Scheduler
    \/ Shutdown_Notifier
    \/ Exit

\* the service with its notifier enabled and its scheduler started
InitShutdown ==
    /\ heap = [a \in Addr |-> NullRec]
    /\ states = [i \in Ids |-> Nil]
    /\ domainIndex = [d \in Domains |-> NoId]
    /\ disk = [i \in Ids |-> NullRec]
    /\ nextId = 1
    /\ provider = EmptyProvider
    /\ tasks = [t \in TaskIds |-> IdleTask]
    /\ nextTask = 1
    /\ recov = [phase |-> "scan", queue |-> {}, cur |-> 0]
    /\ failsLeft = MaxFail
    /\ crashes = 0
    /\ storeOps = 0
    /\ running = 0
    /\ switches = 0
    /\ req = NoRequest
    /\ rt = NoRetry
    /\ fs = NoSave
    /\ notifier = EnabledNotifier
    /\ sched \in {Scheduler_Start(NewScheduler(cfg)) :
                      cfg \in {c \in SummaryConfigs : c.Timezone /\ c.Schedule /\ c.WeeklySchedule}}
    /\ life = Serving

SpecShutdown == InitShutdown /\ [][NextShutdown]_vars

\* the record of the parent domain after n attempts that each failed in
\* createDNSZone: nothing at the provider, status failed, n retries; the debug
\* retry endpoint (followed by a kill) leaves such a record with status pending
FailedBefore(n, status) ==
    [NewState(1, ParentDomain) EXCEPT !.status = status, !.retries = n,
                                      !.error = "failed to create DNS zone"]

\* the state files the service may find when it starts: none, or one with a
\* record that is one failure short of the retry limit, or at it
StateFiles ==
    {NullRec} \cup {FailedBefore(n, st) : n \in {RecoverRetryLimit - 1, RecoverRetryLimit},
                                          st \in {StatusFailed, StatusPending}}

\* the service starts: NewManager loads the state file
InitRecover ==
    \E file \in StateFiles :
        /\ disk = [i \in Ids |-> IF i = 1 THEN file ELSE NullRec]
        /\ heap = [a \in Addr |-> IF a = 1 THEN file ELSE NullRec]
        /\ states = [i \in Ids |-> IF i = 1 /\ file # NullRec THEN 1 ELSE Nil]
        /\ domainIndex = [d \in Domains |->
                             IF d = ParentDomain /\ file # NullRec THEN 1 ELSE NoId]
        /\ nextId = IF file = NullRec THEN 1 ELSE 2
        /\ provider = EmptyProvider
        /\ tasks = [t \in TaskIds |-> IdleTask]
        /\ nextTask = 1
        /\ recov = [phase |-> "scan", queue |-> {}, cur |-> 0]
        /\ failsLeft = MaxFail
        /\ crashes = 0
        /\ storeOps = 0
        /\ running = 0
        /\ switches = 0
        /\ req = NoRequest
        /\ rt = NoRetry
        /\ fs = NoSave
        /\ notifier = NoNotifier
        /\ sched = NoScheduler
        /\ life = Serving

\* the recovery driver of a starting service, with the webhooks that arrive
\* while it is at work; one run of Provision at a time
NextRecover ==
    \/ \E t \in TaskIds : ShellStep(t)
    \/ \E t \in TaskIds : DomainStep(t)
    \/ Quiet /\ handleProvision(ParentDomain)
    \/ recoverPendingProvisions
    \/ Recover_List
    \/ Quiet /\ Recover_Next
    \/ Recover_Return

SpecRecover == InitRecover /\ [][NextRecover]_vars

\* the retry engine under its callers: calls of retry.Do and requests of the
\* provider client, one at a time, every attempt ending in any of the ways
\* an attempt can end
NextRetry ==
    \/ \E cfg \in Configs : Do(cfg)
    \/ doRequest
    \/ \E err \in AttemptOutcomes : retry_Attempt(err)
    \/ retry_Next
    \/ retry_Wake

SpecRetry == Init /\ [][NextRetry]_vars

-----------------------------------------------------------------------------
(* Properties *)

RecordsOf(d) == {i \in StoredIds(World) : Stored(World, i).domain = d}

Done(t) == tasks[t].pc = "done"

NoFailureYet == failsLeft = MaxFail

\* both task slots hold a finished webhook provisioning of the parent domain
TwoWebhooksDone ==
    \A t \in {1, 2} : /\ Done(t)
                       /\ tasks[t].op = "provision"
                       /\ tasks[t].domain = ParentDomain
                       /\ tasks[t].from = "webhook"

\* C1: after any sequence of Manager calls (Create, Update, Delete,
\* MarkProvisioning, MarkSuccess, SetError, IncrementStep, Clear), Create on a
\* domain that has a record included, the store holds at most one record per
\* domain.
C1_OneRecordPerDomain ==
    \A d \in Domains : Cardinality(RecordsOf(d)) <= 1

\* C2: when two accepted webhooks for the same fresh domain have run their
\* provisioning tasks interleaved and both have finished (no provider call
\* having failed), exactly one state record exists for the domain and the
\* provider holds at most one DNS zone and at most one pull zone for it.
C2_ConcurrentWebhooksOneRecord ==
    (TwoWebhooksDone /\ NoFailureYet) =>
        /\ Cardinality(RecordsOf(ParentDomain)) = 1
        /\ Cardinality(ZonesOf(provider, ParentDomain)) <= 1
        /\ Cardinality(PullZonesNamed(provider, generatePullZoneName(ParentDomain))) <= 1

\* a task was killed while its record's file entry showed currentStep = 2
KilledAtStepTwo(t) ==
    /\ tasks[t].pc = "dead"
    /\ tasks[t].op = "provision"
    /\ tasks[t].killedAt = StepDNSRecords

\* the recovery driver of the restarted process has run to its end and no
\* task is running
RecoveryOver == crashes > 0 /\ recov.phase = "done" /\ Quiet

\* C3: when the process is killed while a domain's pipeline is in flight and
\* the persisted record shows currentStep = 2, then after the restart, once
\* the recovery driver has finished its pass (no provider call failing), the
\* record has reached status success.
C3_KilledAtStepTwoRecovered ==
    \A t \in TaskIds :
        (KilledAtStepTwo(t) /\ RecoveryOver /\ NoFailureYet) =>
            \E i \in RecordsOf(tasks[t].domain) : Stored(World, i).status = StatusSuccess

\* the terminal state of one provisioning of domain d: one success record at
\* step 4 that names the one zone and the one pull zone, each seed record
\* once, and one cdn CNAME
SeedCount(d, name, type) ==
    Cardinality({r \in provider.records :
                    r.zone \in ZonesOf(provider, d) /\ r.name = name /\ r.type = type})

TerminalOf(d) ==
    /\ Cardinality(RecordsOf(d)) = 1
    /\ Cardinality(ZonesOf(provider, d)) = 1
    /\ Cardinality(PullZonesNamed(provider, generatePullZoneName(d))) = 1
    /\ \A i \in RecordsOf(d) :
          /\ Stored(World, i).status = StatusSuccess
          /\ Stored(World, i).currentStep = StepCNAMESync
          /\ Stored(World, i).zoneId \in ZonesOf(provider, d)
          /\ \E z \in PullZonesNamed(provider, generatePullZoneName(d)) :
                Stored(World, i).pullZoneId = z.id
    /\ \A k \in 1..Len(Seeds) : SeedCount(d, Seeds[k].name, Seeds[k].type) = 1
    /\ SeedCount(d, "cdn", DNSRecordTypeCNAME) = 1

Returned(t, d) ==
    /\ Done(t)
    /\ tasks[t].op = "provision"
    /\ tasks[t].domain = d
    /\ tasks[t].result \in {"ok", "already provisioned"}

RanOnce(d) == Returned(1, d) /\ tasks[2].pc = "idle"

RanTwice(d) == Returned(1, d) /\ Returned(2, d)

\* C4: running the domain pipeline twice in sequence on a fresh domain ends in
\* the terminal state of running it once: one record with status success and
\* currentStep 4, and at the provider one zone, one pull zone and one seed
\* record per name and type.
C4_TwiceSameAsOnce ==
    (NoFailureYet /\ crashes = 0 /\ (RanOnce(ParentDomain) \/ RanTwice(ParentDomain)))
        => TerminalOf(ParentDomain)

C4_RanTwice ==
    /\ NoFailureYet
    /\ crashes = 0
    /\ RanTwice(ParentDomain)
    /\ \A t \in {1, 2} : tasks[t].from = "webhook"

\* C5: Provision invoked for a domain whose record has status success returns
\* success at once, makes no provider call and leaves the store unchanged.
C5_SuccessShortCircuits ==
    [][\A t \in TaskIds :
          (/\ tasks[t].pc = "start"
           /\ tasks[t].op = "provision"
           /\ tasks'[t].pc \notin {"start", "dead"}
           /\ LookupDomain(World, tasks[t].domain) # NoId
           /\ Stored(World, LookupDomain(World, tasks[t].domain)).status = StatusSuccess)
          => /\ tasks'[t].pc = "done"
             /\ tasks'[t].result = "already provisioned"
             /\ provider' = provider
             /\ storeVars' = storeVars]_vars

C5_ShortCircuited ==
    \E t \in TaskIds :
        /\ Done(t)
        /\ tasks[t].op = "provision"
        /\ tasks[t].result = "already provisioned"
        /\ \E i \in RecordsOf(tasks[t].domain) : Stored(World, i).status = StatusSuccess

\* C6: in every reachable state every record with status success has
\* currentStep 4 and a zone id, and a pull zone id unless it is a subdomain's.
C6_SuccessIsComplete ==
    \A i \in StoredIds(World) :
        Stored(World, i).status = StatusSuccess =>
            /\ Stored(World, i).currentStep = StepCNAMESync
            /\ Stored(World, i).zoneId # 0
            /\ Stored(World, i).domain # SubDomain => Stored(World, i).pullZoneId # 0

\* C7: in every reachable state every record with status failed, in the store
\* or in the state file, has retries >= 1.
C7_FailedHasRetries ==
    \A i \in Ids :
        /\ (Exists(World, i) /\ Stored(World, i).status = StatusFailed)
               => Stored(World, i).retries >= 1
        /\ disk[i].status = StatusFailed => disk[i].retries >= 1

C7_SomeFailed ==
    \E i \in StoredIds(World) : Stored(World, i).status = StatusFailed

\* C8: in every reachable state, a pipeline resumed from a stored currentStep
\* of 1, 2, 3 or 4 included, every record's currentStep is in 0..4.
C8_StepInRange ==
    \A i \in StoredIds(World) : Stored(World, i).currentStep \in StepNone..StepCNAMESync

\* a step of the retry handler or of the run it started
RetryStep ==
    \E t \in TaskIds : tasks'[t] # tasks[t] /\ "retry" \in {tasks[t].from, tasks'[t].from}

\* C9: the currentStep a reader of the store sees for an id never decreases,
\* except by a step of a retry.
C9_StepMonotonic ==
    [][\A i \in Ids :
          (Exists(World, i) /\ states'[i] # Nil /\ crashes' = crashes /\ ~RetryStep)
          => heap'[states'[i]].currentStep >= Stored(World, i).currentStep]_vars

\* C10: every step of the domain or the subdomain pipeline that changes a
\* record's currentStep moves it forward by exactly one.
C10_StepByOne ==
    [][\A i \in Ids :
          (/\ Exists(World, i)
           /\ states'[i] # Nil
           /\ crashes' = crashes
           /\ heap'[states'[i]].currentStep # Stored(World, i).currentStep)
          => heap'[states'[i]].currentStep = Stored(World, i).currentStep + 1]_vars

\* no task is ever at a step that the webhook endpoint's specification leaves out
HttpLeavesNothingOut ==
    \A t \in TaskIds :
        tasks[t].pc \notin {"subAdoptUpdate1", "subAdoptUpdate2", "subAdoptStep", "removeDelete"}

\* task t is in the middle of an operation on record i: it holds the record
\* Provision picked (or the retry handler fetched) or the one its pipeline
\* fetched, and has store calls on that id still to make
Mutating(t, i) ==
    /\ Live(tasks, t)
    /\ \/ tasks[t].outer # Nil /\ heap[tasks[t].outer].id = i
       \/ tasks[t].inner # Nil /\ heap[tasks[t].inner].id = i

\* C11: in every reachable state, for every record id, at most one task
\* (started by a webhook, the recovery driver or the debug retry endpoint) is
\* in the middle of an operation on that record; a webhook for a domain whose
\* record is pending or provisioning starts no second one.
C11_OneTaskPerRecord ==
    \A i \in Ids : Cardinality({t \in TaskIds : Mutating(t, i)}) <= 1

\* Recover starts a run of Provision in slot t
RecoveryStarts(t) ==
    /\ tasks[t].pc = "idle"
    /\ tasks'[t].pc = "start"
    /\ tasks'[t].from = "recovery"

\* C12: whenever the recovery driver starts a run of the pipeline for a
\* domain, the record of that domain has fewer than 5 retries: a record that
\* has accumulated 5 failure transitions gets no further automatic attempt.
C12_RecoveryStopsAtLimit ==
    [][\A t \in TaskIds :
          RecoveryStarts(t) =>
              \A i \in RecordsOf(tasks'[t].domain) :
                  Stored(World, i).retries < RecoverRetryLimit]_vars

\* the signature the contract asks for: the lowercase hex HMAC-SHA256 of the
\* raw body under the configured secret
ExpectedSignature(body) == [digest |-> <<Secret, body>>, case |-> "lower"]

\* the request in hand got past the signature check
SignaturePassed ==
    \/ req.phase = "spawned"
    \/ req.phase = "answered" /\ req.status # StatusUnauthorized

\* C13: a POST request gets past the signature check if and only if its
\* signature header equals the lowercase hex HMAC-SHA256 of its exact raw body
\* under the configured secret; a missing (empty) signature never does.
C13_SignatureIffHmac ==
    (req.phase # "idle" /\ req.method = "POST") =>
        /\ SignaturePassed <=> req.sig = ExpectedSignature(req.body)
        /\ req.sig = NoSignature => ~SignaturePassed

C13_SignedAndAccepted ==
    /\ req.phase = "answered"
    /\ req.method = "POST"
    /\ req.sig = ExpectedSignature(req.body)
    /\ req.status = StatusAccepted

\* what the contract calls an invalid body
MissingField(payload) ==
    \/ payload.user = ""
    \/ /\ payload.event \in {eventAccountCreated, eventAddonCreated, eventAccountDeleted}
       /\ payload.domain = ""
    \/ /\ payload.event = eventSubdomainCreated
       /\ payload.subdomain = "" \/ payload.parent_domain = ""

UnknownEvent(payload) ==
    payload.event \notin {eventAccountCreated, eventAddonCreated, eventSubdomainCreated,
                          eventAccountDeleted}

BadBody(body) ==
    \/ body.kind # "json"
    \/ MissingField(body.payload)
    \/ UnknownEvent(body.payload)

\* a request the receiver has to reject
Rejectable(r) ==
    \/ r.method # "POST"
    \/ r.sig # ExpectedSignature(r.body)
    \/ BadBody(r.body)

\* ServeHTTP takes a request in this step
Handled == req.phase = "idle" /\ req'.phase # "idle"

\* C14: a request with a wrong method, a missing or wrong signature, malformed
\* JSON, a missing required field or an unknown event is answered with a 4xx
\* status in the step that takes it, and that step starts no task and changes
\* neither the store, the state file nor the provider.
C14_RejectedChangesNothing ==
    [][(Handled /\ Rejectable(req')) =>
          /\ req'.phase = "answered"
          /\ req'.status \in 400..499
          /\ tasks' = tasks
          /\ nextTask' = nextTask
          /\ storeVars' = storeVars
          /\ provider' = provider]_vars

C14_RejectedMissingField ==
    /\ req.phase = "answered"
    /\ req.method = "POST"
    /\ req.sig = ExpectedSignature(req.body)
    /\ req.body.kind = "json"
    /\ MissingField(req.body.payload)
    /\ req.status = StatusBadRequest

\* the status the contract asks for, the checks taken in the order method,
\* signature, body
ExpectedStatus(r) ==
    IF r.method # "POST" THEN 405
    ELSE IF r.sig # ExpectedSignature(r.body) THEN 401
    ELSE IF BadBody(r.body) THEN 400
    ELSE 202

\* C15: every answered request has the status of its kind: 405 for a non-POST
\* method; else 401 for a missing or non-matching signature; else 400 for an
\* empty body, malformed JSON, a missing required field or an unknown event;
\* else 202.
C15_StatusByKind ==
    req.phase = "answered" => req.status = ExpectedStatus(req)

C15_WrongSignatureRefused ==
    /\ req.phase = "answered"
    /\ req.method = "POST"
    /\ req.sig \notin {NoSignature, ExpectedSignature(req.body)}
    /\ req.status = StatusUnauthorized

\* the operation the contract assigns to an event
OperationOf(event) ==
    IF event \in {eventAccountCreated, eventAddonCreated} THEN "provision"
    ELSE IF event = eventSubdomainCreated THEN "subdomain"
    ELSE "deprovision"

\* the domain the operation is for
TargetOf(payload) ==
    IF payload.event = eventSubdomainCreated THEN SubDomain ELSE payload.domain

\* C16: the step in which ServeHTTP accepts a webhook starts exactly one task,
\* and that task runs the operation of the webhook's event on the webhook's
\* domain: domain provision for account_created and addon_created, subdomain
\* provision for subdomain_created, teardown for account_deleted.
C16_OneOperationPerWebhook ==
    [][(Handled /\ ~Rejectable(req')) =>
          \E t \in TaskIds :
              /\ req'.task = t
              /\ ~Live(tasks, t)
              /\ tasks'[t].pc = "start"
              /\ tasks'[t].op = OperationOf(req'.body.payload.event)
              /\ tasks'[t].domain = TargetOf(req'.body.payload)
              /\ \A u \in TaskIds \ {t} : tasks'[u] = tasks[u]]_vars

C16_TeardownStarted ==
    /\ req.phase = "answered"
    /\ req.status = StatusAccepted
    /\ req.body.payload.event = eventAccountDeleted
    /\ tasks[req.task].op = "deprovision"
    /\ tasks[req.task].pc = "start"

\* C17: the task an accepted webhook started takes no step (makes no store
\* call and no provider call) while ServeHTTP has not yet written the 202
\* response.
C17_ResponseBeforeWork ==
    [][\A t \in TaskIds :
          (req.phase = "spawned" /\ req.task = t) => tasks'[t] = tasks[t]]_vars

\* teardown task t returns success in this step
TeardownSucceeds(t) ==
    /\ tasks[t].op = "deprovision"
    /\ Live(tasks, t)
    /\ tasks'[t].pc = "done"
    /\ tasks'[t].result = "ok"

\* after the step: nothing of domain d is left at the provider or in the store
NothingLeftOf(d) ==
    /\ ZonesOf(provider', d) = {}
    /\ PullZonesNamed(provider', generatePullZoneName(d)) = {}
    /\ \A i \in Ids : states'[i] # Nil => heap'[states'[i]].domain # d

\* C18: when a teardown returns success, the domain's DNS zone and pull zone
\* are gone from the provider (deleted, or absent before) and the store holds
\* no record of the domain.
C18_TeardownSuccessMeansGone ==
    [][\A t \in TaskIds : TeardownSucceeds(t) => NothingLeftOf(tasks[t].domain)]_vars

\* an earlier teardown of task t's domain has returned success, and nothing of
\* the domain is left at the provider or in the store
AlreadyTornDown(t) ==
    /\ \E u \in TaskIds \ {t} : /\ Done(u)
                                 /\ tasks[u].op = "deprovision"
                                 /\ tasks[u].domain = tasks[t].domain
                                 /\ tasks[u].result = "ok"
    /\ ZonesOf(provider, tasks[t].domain) = {}
    /\ PullZonesNamed(provider, generatePullZoneName(tasks[t].domain)) = {}
    /\ RecordsOf(tasks[t].domain) = {}

\* C19: every step of a teardown that runs on a domain already torn down
\* leaves the provider, the store and the state file as they are and is not a
\* provider delete call, and when the teardown returns it returns success.
C19_TeardownAgainIsNoOp ==
    [][\A t \in TaskIds :
          (/\ tasks[t].op = "deprovision"
           /\ Live(tasks, t)
           /\ tasks'[t] # tasks[t]
           /\ AlreadyTornDown(t))
          => /\ provider' = provider
             /\ storeVars' = storeVars
             /\ tasks[t].pc \notin {"delZoneCall", "delPullCall"}
             /\ tasks'[t].pc = "done" => tasks'[t].result = "ok"]_vars

\* a domain was provisioned, torn down, and torn down again, no provider call
\* having failed
C19_TornDownTwice ==
    /\ NoFailureYet
    /\ \A t \in TaskIds : /\ Done(t)
                          /\ tasks[t].op = "deprovision"
                          /\ tasks[t].domain = ParentDomain
                          /\ tasks[t].result = "ok"
    /\ provider.nextPull > 1
    /\ provider.zones = {}
    /\ provider.pullZones = {}
    /\ RecordsOf(ParentDomain) = {}

\* C20: no step of a task that works on the subdomain's work item (started
\* by its webhook, by recovery after a restart or by the debug retry endpoint)
\* creates a DNS zone named after the subdomain, adds an A, MX or TXT record,
\* or writes a record named cdn.
C20_SubdomainOnlyCNAME ==
    [][\A t \in TaskIds :
          (tasks[t].domain = SubDomain /\ tasks'[t] # tasks[t])
          => /\ \A z \in provider'.zones \ provider.zones : z.domain # SubDomain
             /\ \A r \in provider'.records \ provider.records :
                   /\ r.type \notin {DNSRecordTypeA, DNSRecordTypeMX, DNSRecordTypeTXT}
                   /\ r.name # "cdn"]_vars

\* C21: every step a subdomain run takes while the provider holds no DNS zone
\* of the parent domain leaves the provider as it is (no pull zone is created,
\* no DNS record is added); the parent lookup of step 1 fails the run with the
\* parent-zone-not-found error; and the run ends in an error with the record
\* at status failed, retries at least 1 and the run's error stored in it.
\* (A run that resumes a record past step 1 makes no parent lookup: it fails
\* the same way, with the error of the step that found the zone missing.)
C21_MissingParentFailsTerminally ==
    [][\A t \in TaskIds :
          (/\ tasks[t].op = "subdomain"
           /\ Live(tasks, t)
           /\ tasks'[t] # tasks[t]
           /\ ZonesOf(provider, ParentDomain) = {})
          => /\ provider' = provider
             /\ tasks[t].pc = "findParent" =>
                   tasks'[t].pc = "setError" /\ tasks'[t].err = ParentZoneNotFound
             /\ (tasks'[t].pc = "done" /\ tasks'[t].result # "already provisioned") =>
                   /\ tasks'[t].result = "error"
                   /\ \A i \in Ids :
                         (states'[i] # Nil /\ heap'[states'[i]].domain = SubDomain) =>
                             /\ heap'[states'[i]].status = StatusFailed
                             /\ heap'[states'[i]].retries >= 1
                             /\ heap'[states'[i]].error = tasks[t].err
                             /\ disk'[i] = heap'[states'[i]]]_vars

\* a subdomain webhook on an account without the parent's zone has run to its end
C21_FailedForMissingParent ==
    \E t \in TaskIds :
        /\ Done(t)
        /\ tasks[t].op = "subdomain"
        /\ tasks[t].result = "error"
        /\ tasks[t].err = ParentZoneNotFound
        /\ NoFailureYet
        /\ provider = EmptyProvider
        /\ \E i \in RecordsOf(SubDomain) :
              /\ Stored(World, i).status = StatusFailed
              /\ Stored(World, i).retries >= 1
              /\ Stored(World, i).error = ParentZoneNotFound

\* the outcomes the retry policy names as transient: a network failure, 408,
\* 429 and every 5xx
Transient(err) ==
    \/ err.kind = "network"
    \/ err.kind = "http" /\ (err.status \in {408, 429} \/ err.status \in 500..599)

\* C22: in the provider client, an attempt that ends in a network failure or
\* in status 408, 429 or any 5xx is followed by another attempt while attempts
\* remain (the request returns after such an attempt only when it has made
\* MaxRetries + 1 of them), and an attempt that ends in any other 4xx status
\* ends the request at once.
C22_RetryByOutcome ==
    (rt.api = "doRequest" /\ rt.calls > 0) =>
        /\ (rt.phase = "returned" /\ Transient(rt.last)) => rt.calls > rt.cfg.MaxRetries
        /\ (rt.last.kind = "http" /\ rt.last.status \in 400..499 /\ ~Transient(rt.last))
              => rt.phase = "returned"

\* C23: under the default policy a request of the provider client makes at
\* most 5 attempts in total, the first delay is 1 s, each further delay is
\* twice the one before, and no delay exceeds 60 s.
C23_FiveAttemptsDoubling ==
    rt.api = "doRequest" =>
        /\ rt.calls <= 5
        /\ \A k \in 1..Len(rt.delays) :
              /\ rt.delays[k] <= 60
              /\ rt.delays[k] = IF k = 1 THEN 1
                                ELSE IF 2 * rt.delays[k - 1] > 60 THEN 60
                                ELSE 2 * rt.delays[k - 1]

\* what a caller of retry.Do means by a retryable error: one that carries no
\* HTTP status, or one whose status the configuration lists
RetryableFor(cfg, err) ==
    \/ err.kind = "network"
    \/ err.kind = "http" /\ err.status \in cfg.RetryableErrors

C25_CallerCannotReachStore ==
    [][storeOps' = storeOps =>
          /\ states' = states
          /\ \A i \in Ids : states[i] # Nil => heap'[states'[i]] = Stored(World, i)]_vars

\* what reopening the store would load for id: the file's entry
Reopened(i) == disk[i]

\* what Get(id) returns now: a copy of the stored record, if there is one
GetNow(i) == IF states[i] = Nil THEN NullRec ELSE heap[states[i]]

\* C26: in every state reached after a store mutator has returned (store
\* calls are atomic, so none is ever running), the state file holds exactly
\* the records of the store with the field values Get returns.
C26_FileEqualsMemory ==
    nextId > 1 => \A i \in Ids : Reopened(i) = GetNow(i)

\* the record set of the store, as Get returns it record by record
RecordSet == [i \in Ids |-> GetNow(i)]

\* C27: whenever the process is killed, between two store mutations or in the
\* middle of one (its save at any step), the state file loads, and the store
\* reopened from it holds either the whole record set the file held before
\* that mutation or the whole set the mutation leaves: at every moment this
\* is what a reopening would yield, and after a kill it is what the store holds.
C27_ReopenIsPreOrPost ==
    /\ fs.phase # "unreadable"
    /\ UnmarshalStates(fs.files[filePath]).ok
    /\ UnmarshalStates(fs.files[filePath]).set \in {fs.pre, fs.post}
    /\ fs.phase = "reopened" => RecordSet \in {fs.pre, fs.post}

\* the process was killed while the temporary file was half written, during
\* a mutation of a store that already held a record; the old set came back
C27_KilledMidWrite ==
    /\ fs.phase = "reopened"
    /\ fs.files[tmpPath].n > 0
    /\ ~Whole(fs.files[tmpPath])
    /\ fs.pre # fs.post
    /\ fs.pre # EmptySet
    /\ RecordSet = fs.pre

\* the step a pipeline error comes from
FailedStep(err) ==
    CASE err = "failed to create DNS zone" -> StepDNSZone
      [] err = "failed to add DNS records" -> StepDNSRecords
      [] err = "failed to create pull zone" -> StepPullZone
      [] err = "failed to sync CDN CNAME" -> StepCNAMESync
      [] OTHER -> StepNone

\* C28: when the pipeline of Provision has failed and the shell handles the
\* failure, the record is left with status failed and one more retry than it
\* had, and the failure notification carries the name of the step the error
\* comes from.
C28_FailedStepNamed ==
    [][\A t \in TaskIds :
          (tasks[t].op = "provision" /\ tasks[t].pc = "setError" /\ tasks'[t].pc = "done") =>
              LET id == OuterId(t)
              IN /\ states'[id] # Nil
                 /\ heap'[states'[id]].status = StatusFailed
                 /\ heap'[states'[id]].retries = Stored(World, id).retries + 1
                 /\ notifier'.last.kind = "failed"
                 /\ notifier'.last.domain = tasks[t].domain
                 /\ notifier'.last.step = StepName(FailedStep(tasks[t].err))]_vars

\* C29: in the step that ends Provision, ProvisionSubdomain or Deprovision,
\* where the notification is sent, the result returned, the state file the
\* step leaves and the provider are what the state before the step alone
\* determines, whether the send goes through or fails.  Two runs that differ
\* only in send outcomes therefore return the same results, leave the same
\* records and make the same provider calls.
C29_SendOutcomeIgnored ==
    [][\A t \in TaskIds :
          (/\ tasks[t].pc \in {"setError", "final", "removeState", "removeDelete"}
           /\ tasks'[t].pc = "done"
           /\ tasks'[t].result # "panic") =>
              /\ tasks'[t].result = IF tasks[t].pc = "setError" THEN "error" ELSE "ok"
              /\ provider' = provider
              /\ disk' = CASE tasks[t].pc = "setError" ->
                                SetError(World, OuterId(t), tasks[t].err).disk
                           [] tasks[t].pc = "removeDelete" ->
                                Delete(World, tasks[t].stateId).disk
                           [] OTHER -> disk]_vars

\* a send failed at the end of an operation and the operation's result stands
C29_SendFailed ==
    /\ notifier.last.kind \in {"failed", "success", "deprovisioned"}
    /\ ~notifier.delivered
    /\ \E t \in TaskIds :
          /\ tasks[t].pc = "done"
          /\ tasks[t].domain = notifier.last.domain
          /\ tasks[t].result = IF notifier.last.kind = "failed" THEN "error" ELSE "ok"

\* zone z of the provider holds the four seed records, the TXT one with the
\* SPF text, and a cdn CNAME whose value is the hostname of pull zone pz
Provisioned(z, pz) ==
    /\ \A k \in 1..4 :
          \E rec \in GetDNSRecords(provider, z) :
              /\ rec.type = Seeds[k].type
              /\ rec.name = Seeds[k].name
              /\ Seeds[k].type = DNSRecordTypeTXT => rec.value = SeedValue(Seeds[k].value)
    /\ \E rec \in GetDNSRecords(provider, z) :
          /\ rec.type = DNSRecordTypeCNAME
          /\ rec.name = "cdn"
          /\ rec.value = extractCDNHostname(pz)

\* C30: whenever the store holds a record of a domain (not of a subdomain)
\* with status success, the provider holds a DNS zone of that domain with
\* the seed records A @, CNAME www, MX @ and TXT @ (SPF), the domain's pull
\* zone, and in that zone a cdn CNAME whose value is the pull zone's hostname.
C30_SuccessMeansProvisioned ==
    \A i \in Ids :
        (states[i] # Nil /\ GetNow(i).status = StatusSuccess
                         /\ GetNow(i).domain = ParentDomain) =>
            \E z \in ZonesOf(provider, ParentDomain),
               pz \in PullZonesNamed(provider, generatePullZoneName(ParentDomain)) :
                Provisioned(z, pz)

\* task t is inside an attempt: the shell has marked the record provisioning
\* and has not returned
InAttempt(t) ==
    /\ tasks[t].op \in BothOps
    /\ tasks[t].pc \notin {"idle", "start", "create", "markProvisioning", "done", "dead"}

\* C31: an attempt of Provision or ProvisionSubdomain emits nothing until it
\* ends, and in the step that ends it emits exactly one notification, of
\* failure or of success; one of success only when the record is in the store
\* (so that the MarkSuccess before it has committed status=success).
C31_OneTerminalNotification ==
    [][\A t \in TaskIds :
          (InAttempt(t) /\ tasks'[t] # tasks[t]) =>
              IF tasks'[t].pc = "done"
              THEN /\ notifier'.count = notifier.count + 1
                   /\ notifier'.last.kind \in {"failed", "success", "subdomain_provisioned"}
                   /\ notifier'.last.domain = tasks[t].domain
                   /\ notifier'.last.kind # "failed" => Exists(World, OuterId(t))
              ELSE notifier' = notifier]_vars

\* C37: when Provision makes its final lookup of the record and the record
\* is gone (a teardown deleted it after the pipeline's last step), Provision
\* still ends the attempt and returns; the goroutine does not panic.
C37_FinalLookupNotFound ==
    [][\A t \in TaskIds :
          (/\ tasks[t].op = "provision"
           /\ tasks[t].pc = "final"
           /\ ~Exists(World, OuterId(t))
           /\ tasks'[t] # tasks[t]) =>
              tasks'[t].pc = "done" /\ tasks'[t].result \in {"ok", "error"}]_vars

C40_EachJobOnce ==
    (sched.exists /\ sched.config.Enabled /\ sched.running) =>
        \A j \in Jobs : sched.cron.entries[j] = 1 /\ sched.cron.ran[j] <= 1

\* the steps of a shutdown as they are to be
ShutdownOrder ==
    <<"listeners closed", "responses complete", "scheduler stopped", "notifier shut down",
      "store flushed">>

\* C33: when the process has exited after a shutdown signal, it has closed
\* the listeners, let the requests in flight be answered, stopped the
\* scheduler, shut the notifier down and flushed the state store, in this
\* order, and the state file holds the records the store held in memory.
C33_ShutdownOrderAndFlush ==
    life.phase = "exited" =>
        /\ life.done = ShutdownOrder
        /\ \A i \in Ids : Reopened(i) = GetNow(i)

\* C34: a record with status success keeps status success and currentStep 4
\* for as long as it is in the store: no step of a pipeline task, of recovery
\* or of a handler leaves it with another status or a lower step.
C34_SuccessIsStable ==
    [][\A i \in Ids :
          (/\ states[i] # Nil
           /\ heap[states[i]].status = StatusSuccess
           /\ heap[states[i]].currentStep = StepCNAMESync
           /\ states'[i] # Nil) =>
              /\ heap'[states'[i]].status = StatusSuccess
              /\ heap'[states'[i]].currentStep = StepCNAMESync]_vars

\* C35: the retries of a record never decreases for as long as the record is
\* in the store.
C35_RetriesNeverDecreases ==
    [][\A i \in Ids :
          (states[i] # Nil /\ states'[i] # Nil) =>
              heap'[states'[i]].retries >= heap[states[i]].retries]_vars

\* a teardown and a provisioning of the parent domain have both returned and
\* no task is running
TeardownAndProvisionDone ==
    /\ Quiet
    /\ \E t \in TaskIds : Done(t) /\ tasks[t].op = "deprovision"
                          /\ tasks[t].domain = ParentDomain /\ tasks[t].result # "panic"
    /\ \E t \in TaskIds : Done(t) /\ tasks[t].op = "provision"
                          /\ tasks[t].domain = ParentDomain /\ tasks[t].result # "panic"
    /\ \A t \in TaskIds : tasks[t].result # "panic"

\* C36: once a teardown task and a provisioning task of the same domain have
\* both finished, a state record of the domain exists, or the provider holds
\* no DNS zone and no pull zone of the domain.
C36_NoUntrackedResource ==
    TeardownAndProvisionDone =>
        \/ RecordsOf(ParentDomain) # {}
        \/ /\ ZonesOf(provider, ParentDomain) = {}
           /\ PullZonesNamed(provider, generatePullZoneName(ParentDomain)) = {}

PullZoneIds(p) == {z.id : z \in p.pullZones}

\* C39: no two records of distinct domains hold the same pull zone id, and a
\* teardown step removes no pull zone that the record of another domain holds;
\* this includes domains that differ in dots and dashes only.
C39_OnePullZonePerDomain ==
    [][/\ \A i, j \in Ids :
             (/\ states'[i] # Nil
              /\ states'[j] # Nil
              /\ heap'[states'[i]].domain # heap'[states'[j]].domain
              /\ heap'[states'[i]].pullZoneId # 0) =>
                 heap'[states'[i]].pullZoneId # heap'[states'[j]].pullZoneId
       /\ \A t \in TaskIds :
             (tasks[t].op = "deprovision" /\ tasks'[t] # tasks[t]) =>
                 \A z \in PullZoneIds(provider) \ PullZoneIds(provider') :
                    \A i \in Ids :
                       (states[i] # Nil /\ heap[states[i]].pullZoneId = z) =>
                           heap[states[i]].domain = tasks[t].domain]_vars

\* C38: every request of the provider client starts on a backoff that has
\* handed out no delay yet: its first delay is the initial delay, and when it
\* gives up after transient failures it has used the whole retry budget,
\* whatever the requests before it consumed.
C38_FullBudgetPerCall ==
    rt.api = "doRequest" =>
        /\ (rt.phase = "call" /\ rt.calls = 0) => BackoffInUse = NewBackoff
        /\ Len(rt.delays) >= 1 => rt.delays[1] = rt.cfg.InitialBackoff
        /\ (rt.phase = "returned" /\ rt.result = "error" /\ doRequest_Retryable(rt.last)) =>
              Len(rt.delays) = rt.cfg.MaxRetries

====
